---- MODULE Spec2Model ----
(***************************************************************************)
(* Quality / quality-changes resolution of Cura's profile subsystem.       *)
(*                                                                         *)
(*   cura/Machines/QualityManager.py   QualityManager and                   *)
(*                                     getMachineDefinitionIDForQualitySearch*)
(*   cura/Machines/ContainerTree.py    ContainerTree                        *)
(*   cura/Machines/MaterialManager.py  MaterialManager                      *)
(*   cura/Settings/IntentManager.py    IntentManager                        *)
(*   plugins/SentryLogger/SentryLogger.py  SentryLogger                     *)
(*                                                                         *)
(* Python values are modelled as follows.  None is the string "None".      *)
(* A metadata value is the string of its Python literal, so the boolean    *)
(* True is "True" and the string 'True' is "'True'".  A dict is a function *)
(* over its key set.  An Optional result is a set with at most one element.*)
(* Names and ids of containers are strings, and the string methods the     *)
(* code calls on them are computed character by character.                 *)
(* An exception leaving a method is recorded in the variable raised.       *)
(***************************************************************************)
EXTENDS Integers, FiniteSets, Sequences, TLC

\* ------------------------------------------------------------------ bounds
MaxExtruders == 2
\* The longest burst of notifications the update timer of the
\* MaterialManager sees, and its interval (300 ms) in ticks of the clock.
MaxBurst == 3
TimerInterval == 2
\* Materials are duplicated while the registry holds fewer than
\* MaxMaterials material containers.
MaxMaterials == 4
\* The most calls of SentryLogger.log.
MaxLogs == 3

\* ------------------------------------------------------- modelling domains
QualityTypes == {"draft", "normal", "fine"}
VariantNames == {"AA 0.4", "BB 0.4"}
MaterialBases == {"generic_pla", "generic_abs"}
NoneValue == "None"
NoException == ""
EmptyDict == [x \in {} |-> x]
\* The signals of the registry the MaterialManager listens to.
\* The log types and the messages of the calls of SentryLogger.log.
LogTypes == {"w", "e", "w_once", "e_once", "x", ""}
Messages == {"Could not find machine", "Building container tree."}
\* The material types that the calls ask for.
MaterialTypes == {"PLA", "ABS", "PETG"}
Signals == {"containerAdded", "containerRemoved", "containerMetaDataChanged"}

VARIABLES
    global_qualities,   \* MachineNode.global_qualities: quality type -> QualityNode
    variants,           \* MachineNode.variants: name -> materials -> qualities
    extruders,          \* GlobalStack.extruders: position -> extruder stack
    definition,         \* GlobalStack.definition: the metadata the code reads
    machine_quality_type_to_quality_changes_dict,   \* QualityManager field
    last_call,          \* the method that returned (or raised) last
    raised,             \* the exception that left the last call, or NoException
    quality_groups,     \* result of getQualityGroups
    default_group,      \* result of getDefaultQualityType ({} is None)
    quality_changes_groups, \* result of getQualityChangesGroups
    search_id,          \* result of getMachineDefinitionIDForQualitySearch
    containers,         \* the registry's quality-changes containers, by id
    stacks,             \* the registry's container stacks, by id
    group,              \* the QualityChangesGroup handed to the last call
    new_name,           \* the name the last call returned or gave to containers
    unique_name_calls,  \* calls of uniqueName made by the last call
    emitted,            \* signals emitted by the last call, in order
    reset_stacks,       \* stacks the last call assigned the empty container
    active_machine,     \* id of the active global stack, or None
    added,              \* ids of the containers the last call added, in order
    constructed,        \* ContainerTree.__instance is not None
    all_containers,     \* the registry as the ContainerTree sees it, by id
    machines,           \* ContainerTree.machines: definition id -> MachineNode
    connected,          \* MachineNode -> connections of its materialsChanged
                        \* to ContainerTree.materialsChanged
    update_timer,       \* MaterialManager._update_timer: active, ticks remaining
    quiet,              \* ticks since the last notification of a material
    burst,              \* notifications of materials since the timer expired
    materials_updated,  \* materialsUpdated emitted by the timer since the
                        \* last notification of a material
    favorites,          \* MaterialManager._favorites
    materials,          \* the registry's material containers: id -> metadata
    material_group_map, \* MaterialManager._material_group_map
    fallback_materials_map, \* MaterialManager._fallback_materials_map
    diameter_material_map,  \* MaterialManager._diameter_material_map
    favorite_materials, \* the preference "cura/favorite_materials"
    material_type,      \* the argument of the last getFallbackMaterialIdByMaterialType
    show_once,          \* SentryLogger._show_once
    breadcrumbs,        \* the breadcrumbs given to sentry_sdk.add_breadcrumb
    log_calls,          \* the calls of SentryLogger.log so far
    intent_containers,  \* the registry's containers that the IntentManager searches
    intent,             \* extruder_stack.intent of every extruder: a container id
    intents_result,     \* the list that the last query of the IntentManager returned
    intent_args,        \* the arguments of the last call of the IntentManager
    found_material_node, \* what getMaterialNode returned: {} is None
    returned,           \* what the last call of the MaterialManager returned
    duplicated,         \* the root material id the last call was to duplicate
    copied              \* the containers copied by the last call, as added

vars == <<global_qualities, variants, extruders, definition,
          machine_quality_type_to_quality_changes_dict, last_call, raised,
          quality_groups, default_group, quality_changes_groups, search_id,
          containers, stacks, group, new_name, unique_name_calls, emitted,
          reset_stacks, active_machine, added,
          constructed, all_containers, machines, connected,
          update_timer, quiet, burst, materials_updated,
          favorites, materials, material_group_map, returned, duplicated, copied,
          fallback_materials_map, diameter_material_map, favorite_materials,
          material_type, found_material_node, show_once, breadcrumbs, log_calls,
          intent_containers, intent, intents_result, intent_args>>

\* The fields of the MachineNode and the stack of the active machine.
NodeFields == <<global_qualities, variants, extruders, definition,
                machine_quality_type_to_quality_changes_dict>>
\* The ContainerTree and the registry it listens to.
TreeFields == <<constructed, all_containers, machines, connected>>
\* The update timer of the MaterialManager.
TimerFields == <<update_timer, quiet, burst, materials_updated>>
\* The MaterialManager and the materials of the registry.
\* The lookup tables of the MaterialManager.
MaterialMaps == <<material_group_map, fallback_materials_map, diameter_material_map,
                   material_type>>
MaterialFields == <<favorites, favorite_materials, materials, MaterialMaps, returned,
                    duplicated, copied>>
\* What the managers of the tree and of the materials do not touch.
SentryFields == <<show_once, breadcrumbs, log_calls>>
IntentFields == <<intent_containers, intent, intents_result, intent_args>>
OtherFields == <<found_material_node, SentryFields, IntentFields>>
Tree == <<NodeFields, OtherFields, MaterialFields, active_machine, TreeFields, TimerFields>>
Registry == <<containers, stacks, group, new_name, unique_name_calls, emitted,
              reset_stacks, added>>

\* --------------------------------------------------------------- the tree
\* A QualityNode: owner is <<>> for a global quality of the machine and
\* <<variant, material>> for a quality specialised for a material.
QualityNode(owner, quality_type) ==
    [owner |-> owner, quality_type |-> quality_type, name |-> quality_type]

\* quality type -> QualityNode, for a set of quality types of one owner
QualityMap(owner, types) == [q \in types |-> QualityNode(owner, q)]

\* A freshly constructed QualityGroup.
QualityGroup(name, quality_type) ==
    [name |-> name, quality_type |-> quality_type, node_for_global |-> {},
     nodes_for_extruders |-> EmptyDict, is_available |-> FALSE]

\* --------------------------------------------------- UM.Util / metadata
parseBool(value) == value \in {"True", "'True'", "'true'", "'Yes'", "'yes'", "1"}

getMetaDataEntry(metadata, key, default) ==
    IF key \in DOMAIN metadata THEN metadata[key] ELSE default

\* The search id of a machine with machine quality is always its own id.
getMachineDefinitionIDForQualitySearch_OwnId(machine_definition, default_definition_id) ==
    IF parseBool(getMetaDataEntry(machine_definition, "has_machine_quality", "False"))
    THEN machine_definition["id"]
    ELSE default_definition_id

\* ----------------------------------- getMachineDefinitionIDForQualitySearch
getMachineDefinitionIDForQualitySearch(machine_definition, default_definition_id) ==
    IF parseBool(getMetaDataEntry(machine_definition, "has_machine_quality", "False"))
    THEN IF getMetaDataEntry(machine_definition, "quality_definition", NoneValue) = NoneValue
         THEN machine_definition["id"]
         ELSE machine_definition["quality_definition"]
    ELSE default_definition_id

\* The disabled extruders are not skipped.
QualitiesPerTypePerExtruder_AllExtruders(gq, vs, exts) ==
    [e \in DOMAIN exts |->
        IF exts[e].variant \notin DOMAIN vs
           \/ exts[e].material \notin DOMAIN vs[exts[e].variant]
        THEN gq
        ELSE vs[exts[e].variant][exts[e].material]]

\* ------------------------------------------------------- getQualityGroups
\* Lines 112-123: the quality map of every enabled extruder.
QualitiesPerTypePerExtruder(gq, vs, exts) ==
    [e \in {x \in DOMAIN exts : exts[x].isEnabled} |->
        IF exts[e].variant \notin DOMAIN vs
           \/ exts[e].material \notin DOMAIN vs[exts[e].variant]
        THEN gq
        ELSE vs[exts[e].variant][exts[e].material]]

\* Lines 130-131: "for extruder, qualities_per_type in <dict>" iterates the
\* keys of the dict.  A key is the position of an extruder, which cannot be
\* unpacked into two names, so the first iteration of the loop raises.
NodesForExtrudersRaises(gq, per_extruder) ==
    DOMAIN gq # {} /\ DOMAIN per_extruder # {}

\* Lines 133-137: the intersection of the quality types.
RECURSIVE IntersectionUpdate(_, _, _, _)
IntersectionUpdate(available, per_extruder, exts, todo) ==
    IF todo = {} THEN available
    ELSE LET e == CHOOSE x \in todo : TRUE
         IN  IntersectionUpdate(
                 IF exts[e].isEnabled
                 THEN available \cap DOMAIN per_extruder[e]
                 ELSE available,
                 per_extruder, exts, todo \ {e})

getQualityGroupsResult(gq, vs, exts) ==
    LET per_extruder == QualitiesPerTypePerExtruder(gq, vs, exts)
    IN  IF NodesForExtrudersRaises(gq, per_extruder)
        THEN [raised |-> "ValueError", groups |-> EmptyDict]
        ELSE LET available == IntersectionUpdate(DOMAIN gq, per_extruder, exts,
                                                 DOMAIN per_extruder)
             IN  [raised |-> NoException,
                  groups |-> [q \in DOMAIN gq |->
                      [QualityGroup(gq[q].name, q) EXCEPT
                          !.node_for_global = {gq[q]},
                          !.is_available = (q \in available)]]]

\* ---------------------------------------------------------------- strings
UpperCase == "ABCDEFGHIJKLMNOPQRSTUVWXYZ"
LowerCase == "abcdefghijklmnopqrstuvwxyz"
Digits == {"0", "1", "2", "3", "4", "5", "6", "7", "8", "9"}
Char(str, i) == SubSeq(str, i, i)
\* the lower-case letter of every upper-case letter
LowerOf == [c \in {Char(UpperCase, i) : i \in 1..26} |->
               Char(LowerCase, CHOOSE i \in 1..26 : Char(UpperCase, i) = c)]

\* str.replace(old, new) for a single character old
RECURSIVE replace(_, _, _)
replace(str, old, new) ==
    IF str = "" THEN ""
    ELSE (IF Char(str, 1) = old THEN new ELSE Char(str, 1))
         \o replace(SubSeq(str, 2, Len(str)), old, new)

\* str.lower()
LowerChar(c) == IF c \in DOMAIN LowerOf THEN LowerOf[c] ELSE c
RECURSIVE lower(_)
lower(str) ==
    IF str = "" THEN ""
    ELSE LowerChar(Char(str, 1)) \o lower(SubSeq(str, 2, Len(str)))

\* str.strip()
RECURSIVE rstrip(_)
rstrip(str) ==
    IF str # "" /\ Char(str, Len(str)) = " "
    THEN rstrip(SubSeq(str, 1, Len(str) - 1)) ELSE str
RECURSIVE lstrip(_)
lstrip(str) ==
    IF str # "" /\ Char(str, 1) = " "
    THEN lstrip(SubSeq(str, 2, Len(str))) ELSE str
strip(str) == lstrip(rstrip(str))

\* ------------------------------------------------------------ the registry
\* The name "<base> #<num>" that uniqueName makes; num = 1 is the base.
Name(base, num) == IF num = 1 THEN base ELSE base \o " #" \o ToString(num)
NoName == ""
NoGroup == [name |-> NoName, node_for_global |-> {}, nodes_for_extruders |-> EmptyDict]
empty_quality_changes_container == "empty_quality_changes"

\* The quality-changes groups are rebuilt from the registry on every query:
\* the containers that share a name, the one without a position as the
\* global node and the others by the position of their extruder.
QualityChangesGroupOf(cs, name) ==
    [name |-> name,
     node_for_global |->
        {id \in DOMAIN cs : cs[id].name = name /\ cs[id].position = NoneValue},
     nodes_for_extruders |->
        [pos \in {cs[id].position : id \in
                    {x \in DOMAIN cs : cs[x].name = name /\ cs[x].position # NoneValue}}
            |-> CHOOSE id \in DOMAIN cs :
                    cs[id].name = name /\ cs[id].position = pos]]

QualityChangesGroups(cs) ==
    {QualityChangesGroupOf(cs, name) : name \in {cs[id].name : id \in DOMAIN cs}}

\* QualityGroup.getAllNodes: the global node and the nodes of the extruders.
getAllNodes(g) ==
    g.node_for_global \cup {g.nodes_for_extruders[pos] : pos \in DOMAIN g.nodes_for_extruders}

\* ContainerRegistry.removeContainer, for a set of ids.
removeContainers(cs, ids) == [id \in DOMAIN cs \ ids |-> cs[id]]

\* ContainerRegistry.findContainerStacks(type = t)
findContainerStacks(ss, t) == {s \in DOMAIN ss : ss[s].type = t}

\* ContainerRegistry.uniqueName.  ids and names are those of everything in
\* the registry.  The original is returned when nothing has it as id (in
\* any case of the letters) or as name; otherwise a trailing " #N" is cut
\* off and the first of <name>, <name> #2, <name> #3, ... that is free.
\* findContainersMetadata(id = a, ignore_case = True) matches the id b
EqualIgnoringCase(a, b) == Len(a) = Len(b) /\ lower(a) = lower(b)

NameExists(ids, names, name) ==
    \/ name \in names
    \/ \E id \in ids : EqualIgnoringCase(id, name)

\* The match of (.*?)\s*#\d+$ : the text before a trailing "#<digits>".
RECURSIVE TrailingDigits(_)
TrailingDigits(str) ==
    IF str # "" /\ Char(str, Len(str)) \in Digits
    THEN 1 + TrailingDigits(SubSeq(str, 1, Len(str) - 1)) ELSE 0
WithoutNumber(str) ==
    LET k == TrailingDigits(str)
    IN  IF k >= 1 /\ Len(str) > k /\ Char(str, Len(str) - k) = "#"
        THEN rstrip(SubSeq(str, 1, Len(str) - k - 1))
        ELSE str

\* The loop of uniqueName: <name> #i for the first i that is free.
RECURSIVE NextFreeName(_, _, _, _)
NextFreeName(ids, names, name, i) ==
    IF NameExists(ids, names, Name(name, i))
    THEN NextFreeName(ids, names, name, i + 1)
    ELSE Name(name, i)

UniqueNameOf(ids, names, stripped, cut) ==
    IF cut # "" /\ ~NameExists(ids, names, stripped)
    THEN stripped
    ELSE NextFreeName(ids, names, IF cut = "" THEN "Profile" ELSE cut, 1)

StrippedOf(ids, names, stripped) ==
    UniqueNameOf(ids, names, stripped, WithoutNumber(stripped))

uniqueName(ids, names, original) ==
    StrippedOf(ids, names, strip(replace(original, "*", "")))

\* Everything in the registry: the containers and the stacks, a stack
\* being named as its id.
RegistryIds(cs, ss) == DOMAIN cs \cup DOMAIN ss
RegistryNames(cs, ss) == {cs[id].name : id \in DOMAIN cs} \cup DOMAIN ss

\* Only the machine stacks are reset, not the extruder stacks.
removeQualityChangesGroup_MachinesOnly(quality_changes_group) ==
    LET removed_quality_changes_ids == getAllNodes(quality_changes_group)
        reset == {s \in findContainerStacks(stacks, "machine") :
                     stacks[s].qualityChanges \in removed_quality_changes_ids}
    IN  /\ last_call' = "removeQualityChangesGroup"
        /\ containers' = removeContainers(containers, removed_quality_changes_ids)
        /\ stacks' = [s \in DOMAIN stacks |->
                         IF s \in reset
                         THEN [stacks[s] EXCEPT
                                 !.qualityChanges = empty_quality_changes_container]
                         ELSE stacks[s]]
        /\ group' = quality_changes_group
        /\ reset_stacks' = reset
        /\ added' = <<>>
        /\ unique_name_calls' = 0
        /\ emitted' = <<>>
        /\ UNCHANGED <<Tree, raised, quality_groups, default_group,
                       quality_changes_groups, search_id, new_name>>

\* Lines 180-194.
removeQualityChangesGroup(quality_changes_group) ==
    LET removed_quality_changes_ids == getAllNodes(quality_changes_group)
        reset == {s \in findContainerStacks(stacks, "machine") :
                     stacks[s].qualityChanges \in removed_quality_changes_ids}
                 \cup
                 {s \in findContainerStacks(stacks, "extruder_train") :
                     stacks[s].qualityChanges \in removed_quality_changes_ids}
    IN  /\ last_call' = "removeQualityChangesGroup"
        /\ containers' = removeContainers(containers, removed_quality_changes_ids)
        /\ stacks' = [s \in DOMAIN stacks |->
                         IF s \in reset
                         THEN [stacks[s] EXCEPT
                                 !.qualityChanges = empty_quality_changes_container]
                         ELSE stacks[s]]
        /\ group' = quality_changes_group
        /\ reset_stacks' = reset
        /\ added' = <<>>
        /\ unique_name_calls' = 0
        /\ emitted' = <<>>
        /\ UNCHANGED <<Tree, raised, quality_groups, default_group,
                       quality_changes_groups, search_id, new_name>>

\* The name is not compared with the name of the group first.
renameQualityChangesGroup_NoShortcut(quality_changes_group, name) ==
    /\ last_call' = "renameQualityChangesGroup"
    /\ reset_stacks' = {}
    /\ added' = <<>>
    /\ \E unique \in {uniqueName(RegistryIds(containers, stacks),
                                  RegistryNames(containers, stacks), name)} :
           /\ unique_name_calls' = 1
           /\ containers' =
                 [id \in DOMAIN containers |->
                     IF id \in getAllNodes(quality_changes_group)
                     THEN [containers[id] EXCEPT !.name = unique]
                     ELSE containers[id]]
           /\ group' = [quality_changes_group EXCEPT !.name = unique]
           /\ emitted' = <<"activeQualityChanged", "activeQualityGroupChanged">>
           /\ new_name' = unique
    /\ UNCHANGED <<Tree, raised, quality_groups, default_group,
                   quality_changes_groups, search_id, stacks>>

\* Only the container of the machine is renamed.
renameQualityChangesGroup_GlobalOnly(quality_changes_group, name) ==
    /\ last_call' = "renameQualityChangesGroup"
    /\ reset_stacks' = {}
    /\ added' = <<>>
    /\ IF name = quality_changes_group.name
       THEN /\ new_name' = name
            /\ group' = quality_changes_group
            /\ unique_name_calls' = 0
            /\ emitted' = <<>>
            /\ UNCHANGED containers
       ELSE \E unique \in {uniqueName(RegistryIds(containers, stacks),
                                       RegistryNames(containers, stacks), name)} :
                /\ unique_name_calls' = 1
                /\ containers' =
                      [id \in DOMAIN containers |->
                          IF id \in quality_changes_group.node_for_global
                          THEN [containers[id] EXCEPT !.name = unique]
                          ELSE containers[id]]
                /\ group' = [quality_changes_group EXCEPT !.name = unique]
                /\ emitted' = <<"activeQualityChanged", "activeQualityGroupChanged">>
                /\ new_name' = unique
    /\ UNCHANGED <<Tree, raised, quality_groups, default_group,
                   quality_changes_groups, search_id, stacks>>

\* Lines 200-218.
renameQualityChangesGroup(quality_changes_group, name) ==
    /\ last_call' = "renameQualityChangesGroup"
    /\ reset_stacks' = {}
    /\ added' = <<>>
    /\ IF name = quality_changes_group.name
       THEN /\ new_name' = name
            /\ group' = quality_changes_group
            /\ unique_name_calls' = 0
            /\ emitted' = <<>>
            /\ UNCHANGED containers
       ELSE \E unique \in {uniqueName(RegistryIds(containers, stacks),
                                       RegistryNames(containers, stacks), name)} :
                /\ unique_name_calls' = 1
                /\ containers' =
                      [id \in DOMAIN containers |->
                          IF id \in getAllNodes(quality_changes_group)
                          THEN [containers[id] EXCEPT !.name = unique]
                          ELSE containers[id]]
                /\ group' = [quality_changes_group EXCEPT !.name = unique]
                /\ emitted' = <<"activeQualityChanged", "activeQualityGroupChanged">>
                /\ new_name' = unique
    /\ UNCHANGED <<Tree, raised, quality_groups, default_group,
                   quality_changes_groups, search_id, stacks>>

\* ContainerRegistry.addContainer: a container whose id the registry has
\* already is not added.
addContainer(cs, id, container) ==
    IF id \in DOMAIN cs THEN cs
    ELSE [i \in DOMAIN cs \cup {id} |-> IF i = id THEN container ELSE cs[i]]

\* Lines 296-299: the id of the container _createQualityChanges makes.
NewQualityChangesId(cs, ss, base_id, name) ==
    uniqueName(RegistryIds(cs, ss), RegistryNames(cs, ss),
               replace(lower(base_id \o "_" \o name), " ", "_"))

\* The number that a position "0", "1", ... is the text of.
PositionNumber(p) == CHOOSE i \in 0..9 : ToString(i) = p

\* list(global_stack.extruders.values()): the extruder stacks by position.
RECURSIVE ExtruderStackList(_, _)
ExtruderStackList(ss, todo) ==
    IF todo = {} THEN <<>>
    ELSE LET first == CHOOSE s \in todo : \A t \in todo :
                         PositionNumber(ss[s].position) <= PositionNumber(ss[t].position)
         IN  <<first>> \o ExtruderStackList(ss, todo \ {first})

\* MachineManager.activeQualityOrQualityChangesName: the name of the quality
\* changes of the machine, or of its quality when it has none.
activeQualityOrQualityChangesName(cs, ss, machine) ==
    IF ss[machine].qualityChanges \in DOMAIN cs
    THEN cs[ss[machine].qualityChanges].name
    ELSE "Normal"

\* Lines 272-289: one container per stack, added before the id of the next
\* one is made.
RECURSIVE CreateForStacks(_, _, _, _, _)
CreateForStack(cs, ss, stack_list, unique_name, done, new_id) ==
    CreateForStacks(
        addContainer(cs, new_id,
                     [name |-> unique_name, position |-> ss[Head(stack_list)].position]),
        ss, Tail(stack_list), unique_name, Append(done, new_id))
CreateForStacks(cs, ss, stack_list, unique_name, done) ==
    IF stack_list = <<>> THEN [containers |-> cs, added |-> done]
    ELSE CreateForStack(cs, ss, stack_list, unique_name, done,
             NewQualityChangesId(cs, ss,
                 IF ss[Head(stack_list)].type = "extruder_train"
                 THEN Head(stack_list) ELSE definition["id"],
                 unique_name))

\* Lines 253-289.
createQualityChanges(base_name) ==
    /\ last_call' = "createQualityChanges"
    /\ reset_stacks' = {}
    /\ group' = NoGroup
    /\ IF active_machine = NoneValue
          \/ activeQualityOrQualityChangesName(containers, stacks, active_machine) = ""
       THEN /\ emitted' = <<>>
            /\ unique_name_calls' = 0
            /\ added' = <<>>
            /\ new_name' = NoName
            /\ UNCHANGED containers
       ELSE \E unique_name \in
                {uniqueName(RegistryIds(containers, stacks),
                            RegistryNames(containers, stacks),
                            IF base_name = ""
                            THEN activeQualityOrQualityChangesName(
                                     containers, stacks, active_machine)
                            ELSE base_name)} :
            \E r \in {CreateForStacks(containers, stacks,
                           <<active_machine>> \o ExtruderStackList(stacks,
                               findContainerStacks(stacks, "extruder_train")),
                           unique_name, <<>>)} :
                /\ emitted' = <<"blurSettings">>
                /\ unique_name_calls' = 1 + Len(r.added)
                /\ containers' = r.containers
                /\ added' = r.added
                /\ new_name' = unique_name
    /\ UNCHANGED <<Tree, raised, quality_groups, default_group,
                   quality_changes_groups, search_id, stacks>>

\* QualityChangesGroup.getAllNodes as a list: the global node, then the
\* nodes of the extruders by position.
RECURSIVE ExtruderNodeList(_, _)
ExtruderNodeList(nodes, todo) ==
    IF todo = {} THEN <<>>
    ELSE LET first == CHOOSE p \in todo : \A q \in todo :
                         PositionNumber(p) <= PositionNumber(q)
         IN  <<nodes[first]>> \o ExtruderNodeList(nodes, todo \ {first})
RECURSIVE SetToList(_)
SetToList(set) ==
    IF set = {} THEN <<>>
    ELSE LET x == CHOOSE y \in set : TRUE IN <<x>> \o SetToList(set \ {x})
getAllNodesList(g) ==
    SetToList(g.node_for_global)
    \o ExtruderNodeList(g.nodes_for_extruders, DOMAIN g.nodes_for_extruders)

\* Lines 240-245: one copy per node, added before the id of the next one is
\* made.
RECURSIVE DuplicateNodes(_, _, _, _, _)
DuplicateNode(cs, ss, node_list, name, done, new_id) ==
    DuplicateNodes(
        addContainer(cs, new_id, [cs[Head(node_list)] EXCEPT !.name = name]),
        ss, Tail(node_list), name, Append(done, new_id))
DuplicateNodes(cs, ss, node_list, name, done) ==
    IF node_list = <<>> THEN [containers |-> cs, added |-> done]
    ELSE IF Head(node_list) \notin DOMAIN cs
    THEN DuplicateNodes(cs, ss, Tail(node_list), name, done)
    ELSE DuplicateNode(cs, ss, node_list, name, done,
             uniqueName(RegistryIds(cs, ss), RegistryNames(cs, ss), Head(node_list)))

\* Lines 224-245.  quality_changes_group = NoGroup is None.
duplicateQualityChanges(quality_changes_name, quality_changes_group) ==
    /\ last_call' = "duplicateQualityChanges"
    /\ reset_stacks' = {}
    /\ emitted' = <<>>
    /\ group' = quality_changes_group
    /\ IF active_machine = NoneValue
       THEN /\ unique_name_calls' = 0
            /\ added' = <<>>
            /\ new_name' = NoName
            /\ UNCHANGED containers
       ELSE \E name \in {uniqueName(RegistryIds(containers, stacks),
                                    RegistryNames(containers, stacks),
                                    quality_changes_name)} :
            \E r \in {IF quality_changes_group = NoGroup
                      THEN CreateForStacks(containers, stacks, <<active_machine>>,
                                           name, <<>>)
                      ELSE DuplicateNodes(containers, stacks,
                                          getAllNodesList(quality_changes_group),
                                          name, <<>>)} :
                /\ unique_name_calls' = 1 + Len(r.added)
                /\ containers' = r.containers
                /\ added' = r.added
                /\ new_name' = name
    /\ UNCHANGED <<Tree, raised, quality_groups, default_group,
                   quality_changes_groups, search_id, stacks>>
TypeOK ==
    /\ show_once \subseteq Messages
    /\ log_calls \in Seq([log_type : LogTypes, message : Messages])
    /\ breadcrumbs \in Seq([level : {"warning", "info", "fatal", "error", "debug"},
                             message : Messages])
    /\ material_type \in MaterialTypes \cup {NoneValue}
    /\ fallback_materials_map = EmptyDict
    /\ diameter_material_map = EmptyDict
    /\ DOMAIN global_qualities \subseteq QualityTypes
    /\ DOMAIN variants \subseteq VariantNames
    /\ last_call \in {"", "getQualityGroups", "getDefaultQualityType",
                      "getQualityChangesGroups",
                      "getMachineDefinitionIDForQualitySearch",
                      "removeQualityChangesGroup", "renameQualityChangesGroup",
                      "createQualityChanges", "duplicateQualityChanges",
                      "ContainerTree", "addContainer", "_machineAdded",
                      "setGlobalContainerStack", "getCurrentQualityGroups",
                      "materialsChanged", "tick", "materialsUpdated",
                      "addFavorite", "removeFavorite", "getMaterialGroup",
                      "getFallbackMaterialIdByMaterialType", "getMaterialNode",
                      "log", "intentCategories", "currentAvailableIntents",
                      "currentAvailableIntentCategories", "selectIntent",
                      "activeStackChanged",
                      "duplicateMaterialByRootId", "duplicateMaterial"} \cup Signals
    /\ update_timer.remaining \in 0..TimerInterval
    /\ burst \in 0..MaxBurst
    /\ raised \in {NoException, "ValueError", "KeyError", "IndexError"}
    /\ constructed \in BOOLEAN
    /\ DOMAIN machines \subseteq DOMAIN all_containers
    /\ \A d \in DOMAIN machines : machines[d] \in DOMAIN connected
    /\ \A s \in DOMAIN stacks : stacks[s].type \in {"machine", "extruder_train"}
    /\ unique_name_calls \in 0..(2 + MaxExtruders)
    /\ DOMAIN containers \cap DOMAIN stacks = {}

\* SentryLogger._translateLogType, lines 29-43.
translateLogType(log_type) ==
    IF log_type = "w" THEN "warning"
    ELSE IF log_type = "i" THEN "info"
    ELSE IF log_type = "c" THEN "fatal"
    ELSE IF log_type = "e" THEN "error"
    ELSE IF log_type = "d" THEN "debug"
    ELSE NoneValue

\* A message logged with a plain type is marked as shown too.
SentryLog_MarksPlain(log_type, message) ==
    IF translateLogType(log_type) = NoneValue
    THEN IF message \notin show_once
         THEN IF log_type = ""
              THEN [raised |-> "IndexError", show_once |-> show_once,
                    breadcrumbs |-> breadcrumbs]
              ELSE IF translateLogType(Char(log_type, 1)) # NoneValue
              THEN [raised |-> NoException,
                    show_once |-> show_once \cup {message},
                    breadcrumbs |->
                        Append(breadcrumbs,
                               [level |-> translateLogType(Char(log_type, 1)),
                                message |-> message])]
              ELSE [raised |-> NoException, show_once |-> show_once,
                    breadcrumbs |-> breadcrumbs]
         ELSE [raised |-> NoException, show_once |-> show_once,
               breadcrumbs |-> breadcrumbs]
    ELSE [raised |-> NoException, show_once |-> show_once \cup {message},
          breadcrumbs |-> Append(breadcrumbs,
                                 [level |-> translateLogType(log_type),
                                  message |-> message])]

\* SentryLogger.log, lines 18-27: what it raises, and the marks and the
\* breadcrumbs after it. log_type[0] of the empty string raises IndexError.
SentryLog(log_type, message) ==
    IF translateLogType(log_type) = NoneValue
    THEN IF message \notin show_once
         THEN IF log_type = ""
              THEN [raised |-> "IndexError", show_once |-> show_once,
                    breadcrumbs |-> breadcrumbs]
              ELSE IF translateLogType(Char(log_type, 1)) # NoneValue
              THEN [raised |-> NoException,
                    show_once |-> show_once \cup {message},
                    breadcrumbs |->
                        Append(breadcrumbs,
                               [level |-> translateLogType(Char(log_type, 1)),
                                message |-> message])]
              ELSE [raised |-> NoException, show_once |-> show_once,
                    breadcrumbs |-> breadcrumbs]
         ELSE [raised |-> NoException, show_once |-> show_once,
               breadcrumbs |-> breadcrumbs]
    ELSE [raised |-> NoException, show_once |-> show_once,
          breadcrumbs |-> Append(breadcrumbs,
                                 [level |-> translateLogType(log_type),
                                  message |-> message])]

\* Lines 11-13: nothing is marked, and nothing logged yet.
InitSentryLogger ==
    /\ show_once = {}
    /\ breadcrumbs = <<>>
    /\ log_calls = <<>>

\* A specification that does not use the IntentManager has no intents.
InitNoIntents ==
    /\ intent_containers = EmptyDict
    /\ intent = EmptyDict
    /\ intents_result = <<>>
    /\ intent_args = <<>>

\* No call was made yet.
InitCalls ==
    /\ last_call = ""
    /\ raised = NoException
    /\ quality_groups = EmptyDict
    /\ default_group = {}
    /\ quality_changes_groups = EmptyDict
    /\ search_id = NoneValue
    /\ group = NoGroup
    /\ new_name = NoName
    /\ unique_name_calls = 0
    /\ emitted = <<>>
    /\ reset_stacks = {}
    /\ added = <<>>

InitResults ==
    /\ InitSentryLogger
    /\ InitNoIntents
    /\ InitCalls

\* A specification that does not use the ContainerTree starts without one.
InitNoTree ==
    /\ constructed = FALSE
    /\ all_containers = EmptyDict
    /\ machines = EmptyDict
    /\ connected = EmptyDict

\* Lines 70-74: the timer is made and not started.
InitTimer ==
    /\ update_timer = [active |-> FALSE, remaining |-> 0]
    /\ quiet = 0
    /\ burst = 0
    /\ materials_updated = 0

\* str.split(sep) for a separator of one character, from the left.
RECURSIVE SplitFrom(_, _, _)
SplitFrom(str, sep, current) ==
    IF str = "" THEN <<current>>
    ELSE IF Char(str, 1) = sep
    THEN <<current>> \o SplitFrom(SubSeq(str, 2, Len(str)), sep, "")
    ELSE SplitFrom(SubSeq(str, 2, Len(str)), sep, current \o Char(str, 1))
split(str, sep) == SplitFrom(str, sep, "")

\* sep.join(list)
RECURSIVE join(_, _)
join(sep, list) ==
    IF list = <<>> THEN ""
    ELSE IF Len(list) = 1 THEN list[1]
    ELSE list[1] \o sep \o join(sep, Tail(list))

\* set(list) and the lists list(set) may be: a set has no order of its own.
SetOf(list) == {list[i] : i \in DOMAIN list}
RECURSIVE ListsOf(_)
ListsOf(set) ==
    IF set = {} THEN {<<>>}
    ELSE UNION {{<<x>> \o list : list \in ListsOf(set \ {x})} : x \in set}

\* Lines 55-65: the lookup tables are made empty.
InitMaterialMaps ==
    /\ material_group_map = EmptyDict
    /\ fallback_materials_map = EmptyDict
    /\ diameter_material_map = EmptyDict
    /\ material_type = NoneValue

\* Line 67: the favourites are read from the preference.
InitFavorites(preference) ==
    /\ favorite_materials = preference
    /\ favorites = SetOf(split(preference, ";"))

\* A specification that does not use the materials starts with none.
InitNoMaterials ==
    /\ found_material_node = {}
    /\ InitFavorites("")
    /\ materials = EmptyDict
    /\ InitMaterialMaps
    /\ returned = NoneValue
    /\ duplicated = NoneValue
    /\ copied = <<>>

\* A specification that does not use the registry starts with an empty one.
InitNoRegistry ==
    /\ containers = EmptyDict
    /\ stacks = EmptyDict
    /\ active_machine = NoneValue

\* The machines of the quality-resolution specification: a machine node
\* with global qualities and one variant with one material of its own
\* qualities, and up to MaxExtruders extruders.
InitQuality ==
    /\ \E types \in SUBSET QualityTypes :
          global_qualities = QualityMap(<<>>, types)
    /\ \E types \in SUBSET QualityTypes :
          variants = [v \in {"AA 0.4"} |-> [m \in {"generic_pla"} |->
                         QualityMap(<<v, m>>, types)]]
    /\ \E n \in 0..MaxExtruders :
          extruders \in [0..(n - 1) ->
              [variant : VariantNames, material : MaterialBases,
               isEnabled : BOOLEAN]]
    /\ \E hmq \in {"True", "False"}, pref \in {"normal", NoneValue} :
          definition = [id |-> "ultimaker3", has_machine_quality |-> hmq,
                        preferred_quality_type |-> pref]
    /\ machine_quality_type_to_quality_changes_dict = EmptyDict
    /\ InitNoRegistry
    /\ InitResults
    /\ InitNoTree
    /\ InitTimer
    /\ InitNoMaterials


getQualityGroups ==
    LET r == getQualityGroupsResult(global_qualities, variants, extruders)
    IN  /\ last_call' = "getQualityGroups"
        /\ raised' = r.raised
        /\ quality_groups' = r.groups
        /\ UNCHANGED <<Tree, Registry, default_group, quality_changes_groups, search_id>>

getDefaultQualityType ==
    LET preferred_quality_type ==
            getMetaDataEntry(definition, "preferred_quality_type", NoneValue)
        r == getQualityGroupsResult(global_qualities, variants, extruders)
    IN  /\ last_call' = "getDefaultQualityType"
        /\ raised' = r.raised
        /\ default_group' =
              IF r.raised = NoException /\ preferred_quality_type \in DOMAIN r.groups
              THEN {r.groups[preferred_quality_type]}
              ELSE {}
        /\ UNCHANGED <<Tree, Registry, quality_groups, quality_changes_groups, search_id>>

\* Lines 78-98.  machine_node.quality_type_map is quality type ->
\* quality-changes node, whose children_map is name -> QualityChangesGroup.
getQualityChangesGroupsResult(table, machine_definition, gq, vs, exts) ==
    LET machine_definition_id ==
            getMachineDefinitionIDForQualitySearch(machine_definition, "fdmprinter")
    IN  IF machine_definition_id \notin DOMAIN table
        THEN [raised |-> NoException, groups |-> EmptyDict]
        ELSE LET r == getQualityGroupsResult(gq, vs, exts)
                 available_quality_type_list ==
                     {qt \in DOMAIN r.groups : r.groups[qt].is_available}
                 quality_type_map == table[machine_definition_id]
                 names == UNION {DOMAIN quality_type_map[qt] :
                                    qt \in DOMAIN quality_type_map}
                 TypeOf(n) == CHOOSE qt \in DOMAIN quality_type_map :
                                    n \in DOMAIN quality_type_map[qt]
             IN  IF r.raised # NoException
                 THEN [raised |-> r.raised, groups |-> EmptyDict]
                 ELSE [raised |-> NoException,
                       groups |-> [n \in names |->
                           [quality_type_map[TypeOf(n)][n] EXCEPT
                               !.is_available =
                                   (TypeOf(n) \in available_quality_type_list)]]]

getQualityChangesGroups ==
    LET r == getQualityChangesGroupsResult(
                 machine_quality_type_to_quality_changes_dict, definition,
                 global_qualities, variants, extruders)
    IN  /\ last_call' = "getQualityChangesGroups"
        /\ raised' = r.raised
        /\ quality_changes_groups' = r.groups
        /\ UNCHANGED <<Tree, Registry, quality_groups, default_group, search_id>>

NextQuality ==
    \/ getQualityGroups
    \/ getDefaultQualityType
    \/ getQualityChangesGroups

SpecQuality == InitQuality /\ [][NextQuality]_vars

\* ------------------------------------------- specification of the search id
HasMachineQualityValues ==
    {"True", "False", "'True'", "'true'", "'Yes'", "'yes'", "'False'",
     "'no'", "1", "0", "'TRUE'"}
DefinitionIds == {"ultimaker3", "ultimaker3_extended", "custom_printer"}

\* Definitions with and without the two optional metadata entries.
InitDefinition ==
    /\ \E id \in DefinitionIds :
       \E hmq \in SUBSET HasMachineQualityValues :
       \E qd \in SUBSET (DefinitionIds \ {id}) :
          /\ Cardinality(hmq) <= 1
          /\ Cardinality(qd) <= 1
          /\ definition =
                ("id" :> id)
                @@ [k \in {"has_machine_quality" : v \in hmq} |-> CHOOSE v \in hmq : TRUE]
                @@ [k \in {"quality_definition" : v \in qd} |-> CHOOSE v \in qd : TRUE]
    /\ global_qualities = EmptyDict
    /\ variants = EmptyDict
    /\ extruders = EmptyDict
    /\ machine_quality_type_to_quality_changes_dict = EmptyDict
    /\ InitNoRegistry
    /\ InitResults
    /\ InitNoTree
    /\ InitTimer
    /\ InitNoMaterials

callGetMachineDefinitionIDForQualitySearch(default_definition_id) ==
    /\ last_call' = "getMachineDefinitionIDForQualitySearch"
    /\ raised' = NoException
    /\ search_id' = getMachineDefinitionIDForQualitySearch(definition,
                                                          default_definition_id)
    /\ UNCHANGED <<Tree, Registry, quality_groups, default_group, quality_changes_groups>>

NextDefinition ==
    \E default_definition_id \in {"fdmprinter", "fdmextruder"} :
        callGetMachineDefinitionIDForQualitySearch(default_definition_id)

SpecDefinition == InitDefinition /\ [][NextDefinition]_vars

\* ----------------------------------------- specification of the registry
ProfileNames == {"Custom A", "Custom B"}
NewNames == {Name(b, n) : b \in ProfileNames \cup {"Custom C"}, n \in 1..2}
Positions == {"0", "1", "2"}
PositionsOf(n) == {p \in Positions : \E i \in 0..(n - 1) : p = ToString(i)}
MachineStackIds == {"Ultimaker 3", "Ultimaker 3 #2"}
\* The extruder stacks of the machine "Ultimaker 3", by position.
ExtruderStackId(p) ==
    CASE p = "0" -> "ultimaker3_extruder_left #2"
      [] p = "1" -> "ultimaker3_extruder_right #2"
      [] p = "2" -> "ultimaker3_extruder_third #2"

\* Lines 297-298: the id of a new container, before it is made unique.
ContainerId(base_id, name) == replace(lower(base_id \o "_" \o name), " ", "_")

\* The dict of a set of containers given as records with their id.
ContainerDict(records) ==
    [id \in {r.id : r \in records} |->
        LET r == CHOOSE x \in records : x.id = id
        IN  [name |-> r.name, position |-> r.position]]

\* The containers of the custom profile name of a machine: one for the
\* machine and one for the extruder of each of the positions.
ProfileContainers(name, positions) ==
    {[id |-> ContainerId("ultimaker3", name), name |-> name, position |-> NoneValue]}
    \cup {[id |-> ContainerId(ExtruderStackId(p), name), name |-> name,
           position |-> p] : p \in positions}

\* The stacks: the machines and the extruders of the first machine, with
\* the quality changes that refs gives them.
StackDict(refs, positions) ==
    [s \in MachineStackIds \cup {ExtruderStackId(p) : p \in positions} |->
        IF s \in MachineStackIds
        THEN [type |-> "machine", position |-> NoneValue, qualityChanges |-> refs[s]]
        ELSE [type |-> "extruder_train",
              position |-> CHOOSE p \in positions : ExtruderStackId(p) = s,
              qualityChanges |-> refs[s]]]

\* A registry with the custom profiles "Custom A", which has a container for
\* the machine and for every extruder, and "Custom B", which has one for
\* the machine and for the first extruder; two machines of one definition
\* and the extruders of the first, each with any of the quality changes
\* that fit it, or with none.
InitRegistry ==
    /\ containers =
          ContainerDict(ProfileContainers("Custom A", PositionsOf(MaxExtruders))
                        \cup ProfileContainers("Custom B", {"0"}))
    /\ \E refs \in [MachineStackIds
                        \cup {ExtruderStackId(p) : p \in PositionsOf(MaxExtruders)} ->
                     DOMAIN containers \cup {empty_quality_changes_container}] :
          /\ stacks = StackDict(refs, PositionsOf(MaxExtruders))
          /\ \A s \in DOMAIN refs :
                IF refs[s] = empty_quality_changes_container THEN TRUE
                ELSE containers[refs[s]].position = stacks[s].position
    /\ global_qualities = EmptyDict
    /\ variants = EmptyDict
    /\ extruders = EmptyDict
    /\ definition = [id |-> "ultimaker3"]
    /\ machine_quality_type_to_quality_changes_dict = EmptyDict
    /\ active_machine = "Ultimaker 3"
    /\ InitResults
    /\ InitNoTree
    /\ InitTimer
    /\ InitNoMaterials

\* --------------------------------- specification of the created profiles
MaxProfiles == 3
CreatedNames == {"", "custom a", "My Profile"}
DuplicateNames == {"Custom A", "My Profile"}

\* A registry with the custom profile "Custom A" of the machine and its
\* extruders, active on the machine or not, and the machine active or not.
InitProfiles ==
    /\ containers = ContainerDict(ProfileContainers("Custom A", PositionsOf(MaxExtruders)))
    /\ \E active \in BOOLEAN :
          stacks = StackDict(
              [s \in MachineStackIds
                      \cup {ExtruderStackId(p) : p \in PositionsOf(MaxExtruders)} |->
                  IF active /\ s # "Ultimaker 3 #2"
                  THEN CHOOSE id \in DOMAIN containers :
                          IF containers[id].position = NoneValue
                          THEN s \in MachineStackIds
                          ELSE ExtruderStackId(containers[id].position) = s
                  ELSE empty_quality_changes_container],
              PositionsOf(MaxExtruders))
    /\ active_machine \in {NoneValue, "Ultimaker 3"}
    /\ global_qualities = EmptyDict
    /\ variants = EmptyDict
    /\ extruders = EmptyDict
    /\ definition = [id |-> "ultimaker3"]
    /\ machine_quality_type_to_quality_changes_dict = EmptyDict
    /\ InitResults
    /\ InitNoTree
    /\ InitTimer
    /\ InitNoMaterials

\* Profiles are created while the registry holds fewer than MaxProfiles
\* names of profiles.
ProfileCount(cs) == Cardinality({cs[id].name : id \in DOMAIN cs})
NextProfiles ==
    \/ \E base_name \in CreatedNames :
          /\ ProfileCount(containers) < MaxProfiles
          /\ createQualityChanges(base_name)
    \/ \E name \in DuplicateNames,
          g \in QualityChangesGroups(containers) \cup {NoGroup} :
          /\ ProfileCount(containers) < MaxProfiles
          /\ duplicateQualityChanges(name, g)

SpecProfiles == InitProfiles /\ [][NextProfiles]_vars

NextRegistry ==
    \/ \E g \in QualityChangesGroups(containers) : removeQualityChangesGroup(g)
    \/ \E g \in QualityChangesGroups(containers), name \in NewNames :
          renameQualityChangesGroup(g, name)

SpecRegistry == InitRegistry /\ [][NextRegistry]_vars

\* ------------------------------------------------------ the ContainerTree
\* The containers of the registry: definitions, the stacks of machines,
\* each of a definition, and a container that is neither.
TreeDefinitionIds == {"ultimaker3", "ultimaker_s5"}
GlobalStackIds == {"Ultimaker 3", "Ultimaker S5"}
DefinitionOfStack(stack_id) ==
    IF stack_id = "Ultimaker 3" THEN "ultimaker3" ELSE "ultimaker_s5"
TreeContainers ==
    {[id |-> d, class |-> "DefinitionContainer", definition |-> NoneValue] :
        d \in TreeDefinitionIds}
    \cup {[id |-> st, class |-> "ContainerStack", definition |-> DefinitionOfStack(st)] :
        st \in GlobalStackIds}
    \cup {[id |-> "generic_pla", class |-> "InstanceContainer", definition |-> NoneValue]}

\* Lines 76-77: a new MachineNode, its materialsChanged connected once.
\* A node is the number of the nodes made before it, plus one.
NewMachineNode(ms, conn, definition_id) ==
    [machines |-> [d \in DOMAIN ms \cup {definition_id} |->
                      IF d = definition_id THEN Cardinality(DOMAIN conn) + 1
                      ELSE ms[d]],
     connected |-> [n \in DOMAIN conn \cup {Cardinality(DOMAIN conn) + 1} |->
                      IF n \in DOMAIN conn THEN conn[n] ELSE 1]]

\* The node is made whether or not the tree has one for the definition.
MachineAdded_NoCheck(ms, conn, c) ==
    IF c.class # "DefinitionContainer"
    THEN [machines |-> ms, connected |-> conn]
    ELSE NewMachineNode(ms, conn, c.id)

\* Lines 69-77: _machineAdded.
MachineAdded(ms, conn, c) ==
    IF c.class # "DefinitionContainer"
    THEN [machines |-> ms, connected |-> conn]
    ELSE IF c.id \in DOMAIN ms
    THEN [machines |-> ms, connected |-> conn]
    ELSE NewMachineNode(ms, conn, c.id)

\* The nodes of the initial load are not connected.
RECURSIVE LoadAll_NotConnected(_, _, _)
LoadAll_NotConnected(ms, conn, all_stacks) ==
    IF all_stacks = {} THEN [machines |-> ms, connected |-> conn]
    ELSE LET stack == CHOOSE st \in all_stacks : TRUE
             made == NewMachineNode(ms, conn, stack.definition)
         IN  IF stack.definition \in DOMAIN ms
             THEN LoadAll_NotConnected(ms, conn, all_stacks \ {stack})
             ELSE LoadAll_NotConnected(made.machines,
                      [n \in DOMAIN made.connected |->
                          IF n \in DOMAIN conn THEN conn[n] ELSE 0],
                      all_stacks \ {stack})

\* Lines 59-64: _loadAll, over the stacks of the registry.
RECURSIVE LoadAll(_, _, _)
LoadAll(ms, conn, all_stacks) ==
    IF all_stacks = {} THEN [machines |-> ms, connected |-> conn]
    ELSE LET stack == CHOOSE st \in all_stacks : TRUE
             made == NewMachineNode(ms, conn, stack.definition)
         IN  IF stack.definition \in DOMAIN ms
             THEN LoadAll(ms, conn, all_stacks \ {stack})
             ELSE LoadAll(made.machines, made.connected, all_stacks \ {stack})

ContainerStacksOf(registry) ==
    {registry[id] : id \in {i \in DOMAIN registry :
                               registry[i].class = "ContainerStack"}}

\* Lines 32-38: ContainerTree.getInstance() for the first time.
ContainerTreeInit ==
    /\ ~constructed
    /\ constructed' = TRUE
    /\ last_call' = "ContainerTree"
    /\ raised' = NoException
    /\ \E r \in {LoadAll(EmptyDict, EmptyDict, ContainerStacksOf(all_containers))} :
          /\ machines' = r.machines
          /\ connected' = r.connected
    /\ UNCHANGED <<NodeFields, OtherFields, MaterialFields, active_machine, Registry, all_containers, TimerFields,
                   quality_groups, default_group, quality_changes_groups, search_id>>

\* ContainerRegistry.addContainer of a container the registry has not:
\* containerAdded is emitted, and _machineAdded runs when the tree is
\* there to listen (line 37).  A stack is added after its definition.
registryAddContainer(c) ==
    /\ c.id \notin DOMAIN all_containers
    /\ c.definition # NoneValue => c.definition \in DOMAIN all_containers
    /\ all_containers' = [i \in DOMAIN all_containers \cup {c.id} |->
                              IF i = c.id THEN c ELSE all_containers[i]]
    /\ last_call' = "addContainer"
    /\ raised' = NoException
    /\ IF constructed
       THEN \E r \in {MachineAdded(machines, connected, c)} :
                /\ machines' = r.machines
                /\ connected' = r.connected
       ELSE UNCHANGED <<machines, connected>>
    /\ UNCHANGED <<NodeFields, OtherFields, MaterialFields, active_machine, Registry, constructed, TimerFields,
                   quality_groups, default_group, quality_changes_groups, search_id>>

\* containerAdded delivered for a container of the registry.
machineAdded(c) ==
    /\ constructed
    /\ last_call' = "_machineAdded"
    /\ raised' = NoException
    /\ \E r \in {MachineAdded(machines, connected, c)} :
          /\ machines' = r.machines
          /\ connected' = r.connected
    /\ UNCHANGED <<NodeFields, OtherFields, MaterialFields, active_machine, Registry, constructed, all_containers,
                   TimerFields, quality_groups, default_group, quality_changes_groups, search_id>>

\* CuraApplication.setGlobalContainerStack: a machine of the registry, or none.
setGlobalContainerStack(stack_id) ==
    /\ stack_id # active_machine
    /\ stack_id = NoneValue \/ stack_id \in DOMAIN all_containers
    /\ active_machine' = stack_id
    /\ last_call' = "setGlobalContainerStack"
    /\ raised' = NoException
    /\ UNCHANGED <<NodeFields, OtherFields, MaterialFields, TreeFields, TimerFields, Registry,
                   quality_groups, default_group, quality_changes_groups, search_id>>

\* self.machines[definition_id] of a plain dict.
MachineNodeRaises(ms, definition_id) ==
    IF definition_id \in DOMAIN ms THEN NoException ELSE "KeyError"

\* Lines 46-53.  The result of MachineNode.getQualityGroups is left out.
getCurrentQualityGroups ==
    /\ constructed
    /\ last_call' = "getCurrentQualityGroups"
    /\ raised' = IF active_machine = NoneValue THEN NoException
                 ELSE MachineNodeRaises(machines,
                                        all_containers[active_machine].definition)
    /\ UNCHANGED <<Tree, Registry, quality_groups, default_group,
                   quality_changes_groups, search_id>>

\* QualityManager.getQualityGroups(global_stack), lines 107-140, for the
\* active machine: the node is looked up (line 109) before anything else.
getQualityGroupsOfStack ==
    /\ constructed
    /\ active_machine # NoneValue
    /\ IF MachineNodeRaises(machines, all_containers[active_machine].definition)
            # NoException
       THEN /\ last_call' = "getQualityGroups"
            /\ raised' = MachineNodeRaises(machines,
                                           all_containers[active_machine].definition)
            /\ UNCHANGED <<Tree, Registry, quality_groups, default_group,
                           quality_changes_groups, search_id>>
       ELSE getQualityGroups

\* A MachineNode of the tree emits materialsChanged: the tree's signal is
\* emitted once per connection.
nodeMaterialsChanged(definition_id) ==
    /\ definition_id \in DOMAIN machines
    /\ last_call' = "materialsChanged"
    /\ raised' = NoException
    /\ emitted' = [k \in 1..connected[machines[definition_id]] |-> "materialsChanged"]
    /\ group' = NoGroup
    /\ new_name' = NoName
    /\ unique_name_calls' = 0
    /\ reset_stacks' = {}
    /\ added' = <<>>
    /\ UNCHANGED <<Tree, containers, stacks, quality_groups, default_group,
                   quality_changes_groups, search_id>>

\* MachineNode.variants: the variants of the machine node of a definition.
\* The node of the modelled definition has the modelled variants, every
\* other node has none yet.
VariantsOfMachine(definition_id) ==
    IF definition_id = definition.id THEN variants ELSE EmptyDict

\* The material node is found under any variant of the machine.
MaterialNodeOf_AnyVariant(machine_definition_id, nozzle_name, root_material_id) ==
    IF machine_definition_id \notin DOMAIN machines THEN {}
    ELSE {[machine |-> machine_definition_id, variant |-> v,
           base_file |-> root_material_id,
           qualities |-> VariantsOfMachine(machine_definition_id)[v][root_material_id]] :
             v \in {w \in DOMAIN VariantsOfMachine(machine_definition_id) :
                      root_material_id
                          \in DOMAIN VariantsOfMachine(machine_definition_id)[w]}}

\* MaterialManager.getMaterialNode, lines 144-163: {} is None.
MaterialNodeOf(machine_definition_id, nozzle_name, root_material_id) ==
    IF machine_definition_id \notin DOMAIN machines THEN {}
    ELSE IF nozzle_name \notin DOMAIN VariantsOfMachine(machine_definition_id) THEN {}
    ELSE IF root_material_id
                \notin DOMAIN VariantsOfMachine(machine_definition_id)[nozzle_name]
    THEN {}
    ELSE {[machine |-> machine_definition_id, variant |-> nozzle_name,
           base_file |-> root_material_id,
           qualities |->
               VariantsOfMachine(machine_definition_id)[nozzle_name][root_material_id]]}

getMaterialNode(machine_definition_id, nozzle_name, root_material_id) ==
    /\ constructed
    /\ last_call' = "getMaterialNode"
    /\ raised' = NoException
    /\ found_material_node' = MaterialNodeOf(machine_definition_id, nozzle_name,
                                       root_material_id)
    /\ UNCHANGED <<NodeFields, SentryFields, IntentFields, MaterialFields,
                   active_machine, TreeFields, TimerFields,
                   Registry, quality_groups, default_group, quality_changes_groups,
                   search_id>>

\* The registry holds any of the containers before the tree is made.
InitTree ==
    /\ constructed = FALSE
    /\ machines = EmptyDict
    /\ connected = EmptyDict
    /\ \E ids \in SUBSET {c.id : c \in TreeContainers} :
          /\ \A c \in TreeContainers :
                (c.id \in ids /\ c.definition # NoneValue) => c.definition \in ids
          /\ all_containers = [i \in ids |-> CHOOSE c \in TreeContainers : c.id = i]
    /\ global_qualities = EmptyDict
    /\ \E vs \in SUBSET {"AA 0.4"} :
          variants = [v \in vs |-> [m \in {"generic_pla"} |->
                         QualityMap(<<v, m>>, {"normal"})]]
    /\ extruders = EmptyDict
    /\ definition = [id |-> "ultimaker3"]
    /\ machine_quality_type_to_quality_changes_dict = EmptyDict
    /\ InitResults
    /\ InitNoRegistry
    /\ InitTimer
    /\ InitNoMaterials

NextTree ==
    \/ ContainerTreeInit
    \/ \E c \in TreeContainers : registryAddContainer(c)
    \/ \E id \in DOMAIN all_containers : machineAdded(all_containers[id])
    \/ \E stack_id \in GlobalStackIds \cup {NoneValue} : setGlobalContainerStack(stack_id)
    \/ getCurrentQualityGroups
    \/ getQualityGroupsOfStack
    \/ \E d \in TreeDefinitionIds : nodeMaterialsChanged(d)
    \/ \E d \in TreeDefinitionIds, nozzle_name \in VariantNames \cup {NoneValue},
          root_material_id \in MaterialBases :
          getMaterialNode(d, nozzle_name, root_material_id)

SpecTree == InitTree /\ [][NextTree]_vars

\* ------------------------------------- the update timer of MaterialManager
ContainerTypes == {"material", "quality_changes"}

\* QTimer.start() of a timer that is running leaves it running as it is.
TimerStart_NoRestart(timer) ==
    IF timer.active THEN timer
    ELSE [active |-> TRUE, remaining |-> TimerInterval]

\* QTimer.start(): the timer runs its whole interval from now, whether or
\* not it was running.
TimerStart(timer) == [active |-> TRUE, remaining |-> TimerInterval]

\* Line 73: a single-shot timer stops at its timeout.
TimerTimeout(timer) == [active |-> FALSE, remaining |-> 0]

\* Lines 77-91: a signal of the registry for a container of a type.
onContainerChanged(signal, container_type) ==
    /\ last_call' = signal
    /\ raised' = NoException
    /\ IF container_type # "material"
       THEN UNCHANGED TimerFields
       ELSE /\ burst < MaxBurst
            /\ update_timer' = TimerStart(update_timer)
            /\ quiet' = 0
            /\ burst' = burst + 1
            /\ materials_updated' = 0
    /\ UNCHANGED <<NodeFields, OtherFields, MaterialFields, active_machine, TreeFields, Registry,
                   quality_groups, default_group, quality_changes_groups, search_id>>

\* The clock: a tick of the running timer, and of the time since the last
\* notification of a material.
timerTick ==
    /\ update_timer.active
    /\ update_timer.remaining > 0
    /\ update_timer' = [update_timer EXCEPT !.remaining = @ - 1]
    /\ quiet' = IF quiet < TimerInterval THEN quiet + 1 ELSE quiet
    /\ last_call' = "tick"
    /\ raised' = NoException
    /\ UNCHANGED <<NodeFields, OtherFields, MaterialFields, active_machine, TreeFields, Registry, burst,
                   materials_updated,
                   quality_groups, default_group, quality_changes_groups, search_id>>

\* Line 74: the timeout of the timer emits materialsUpdated.
timerTimeout ==
    /\ update_timer.active
    /\ update_timer.remaining = 0
    /\ materials_updated < 2
    /\ update_timer' = TimerTimeout(update_timer)
    /\ materials_updated' = materials_updated + 1
    /\ burst' = 0
    /\ last_call' = "materialsUpdated"
    /\ raised' = NoException
    /\ UNCHANGED <<NodeFields, OtherFields, MaterialFields, active_machine, TreeFields, Registry, quiet,
                   quality_groups, default_group, quality_changes_groups, search_id>>

\* Lines 393-399.
addFavorite(root_material_id) ==
    /\ favorites' = favorites \cup {root_material_id}
    /\ \E list \in ListsOf(favorites') : favorite_materials' = join(";", list)
    /\ emitted' = <<"materialsUpdated">>
    /\ last_call' = "addFavorite"
    /\ raised' = NoException
    /\ returned' = NoneValue
    /\ UNCHANGED <<NodeFields, OtherFields, materials, MaterialMaps, duplicated, copied,
                   active_machine, TreeFields, TimerFields,
                   containers, stacks, group, new_name, unique_name_calls,
                   reset_stacks, added,
                   quality_groups, default_group, quality_changes_groups, search_id>>

\* Lines 402-412: the KeyError of a material that is no favourite is caught.
removeFavorite(root_material_id) ==
    /\ favorites' = favorites \ {root_material_id}
    /\ IF root_material_id \in favorites
       THEN \E list \in ListsOf(favorites') : favorite_materials' = join(";", list)
       ELSE UNCHANGED favorite_materials
    /\ emitted' = IF root_material_id \in favorites
                  THEN <<"materialsUpdated">> ELSE <<>>
    /\ last_call' = "removeFavorite"
    /\ raised' = NoException
    /\ returned' = NoneValue
    /\ UNCHANGED <<NodeFields, OtherFields, materials, MaterialMaps, duplicated, copied,
                   active_machine, TreeFields, TimerFields,
                   containers, stacks, group, new_name, unique_name_calls,
                   reset_stacks, added,
                   quality_groups, default_group, quality_changes_groups, search_id>>

RootMaterialIds == {"generic_pla", "generic_abs"}

InitDebounce ==
    /\ InitTimer
    /\ InitNoTree
    /\ InitNoMaterials
    /\ InitNoRegistry
    /\ InitResults
    /\ global_qualities = EmptyDict
    /\ variants = EmptyDict
    /\ extruders = EmptyDict
    /\ definition = [id |-> "ultimaker3"]
    /\ machine_quality_type_to_quality_changes_dict = EmptyDict

NextDebounce ==
    \/ \E signal \in Signals, container_type \in ContainerTypes :
          onContainerChanged(signal, container_type)
    \/ timerTick
    \/ timerTimeout
    \/ \E root_material_id \in RootMaterialIds : addFavorite(root_material_id)
    \/ \E root_material_id \in RootMaterialIds : removeFavorite(root_material_id)

SpecDebounce == InitDebounce /\ [][NextDebounce]_vars

\* The event loop runs: the clock ticks and a timer that is due fires.
SpecDebounceFair ==
    SpecDebounce /\ WF_vars(timerTick) /\ WF_vars(timerTimeout)

\* ------------------------------------------- the duplication of materials
\* The metadata of a material container.
MaterialMetadata(id, base_file, definition_id, variant_name, guid, name) ==
    [id |-> id, base_file |-> base_file, type |-> "material",
     definition |-> definition_id, variant_name |-> variant_name,
     GUID |-> guid, name |-> name, brand |-> "Generic",
     material |-> name, color_name |-> "Generic"]

\* copy.deepcopy of a container with its id, its base_file and then the
\* keys of new_metadata set (lines 308-313, 327-332).
\* new_metadata is {} for None and {dict} for a dict.
WithMetadata(metadata, new_metadata) ==
    IF new_metadata = {} THEN metadata
    ELSE LET dict == CHOOSE d \in new_metadata : TRUE
         IN  [k \in DOMAIN metadata \cup DOMAIN dict |->
                 IF k \in DOMAIN dict THEN dict[k] ELSE metadata[k]]

\* The copy keeps the base_file of its source.
CopyOf_SameBaseFile(container, new_id, new_base_id, new_metadata) ==
    WithMetadata([container EXCEPT !.id = new_id], new_metadata)

CopyOf(container, new_id, new_base_id, new_metadata) ==
    WithMetadata([container EXCEPT !.id = new_id, !.base_file = new_base_id],
                 new_metadata)

\* Lines 320-325: the id of the copy of a derivative.
DerivativeId(new_base_id, container) ==
    IF container.definition = "fdmprinter" THEN new_base_id
    ELSE IF container.variant_name \in {NoneValue, ""}
    THEN new_base_id \o "_" \o container.definition
    ELSE new_base_id \o "_" \o container.definition
                    \o "_" \o replace(container.variant_name, " ", "_")

MaterialNames(ms) == {ms[id].name : id \in DOMAIN ms}

\* Line 307.
NewBaseId(ms, root_material_id, new_base_id) ==
    IF new_base_id = NoneValue
    THEN uniqueName(DOMAIN ms, MaterialNames(ms), root_material_id)
    ELSE new_base_id

\* Lines 305-333: new_containers, with the id of the source of each.
NewContainers(ms, root_material_id, new_base_id, new_metadata) ==
    <<[source |-> root_material_id,
       container |-> CopyOf(ms[root_material_id], new_base_id, new_base_id,
                            new_metadata)]>>
    \o [k \in 1..Cardinality({id \in DOMAIN ms \ {root_material_id} :
                                  ms[id].base_file = root_material_id}) |->
          [source |-> SetToList({id \in DOMAIN ms \ {root_material_id} :
                                   ms[id].base_file = root_material_id})[k],
           container |->
              CopyOf(ms[SetToList({id \in DOMAIN ms \ {root_material_id} :
                                     ms[id].base_file = root_material_id})[k]],
                     DerivativeId(new_base_id,
                        ms[SetToList({id \in DOMAIN ms \ {root_material_id} :
                                        ms[id].base_file = root_material_id})[k]]),
                     new_base_id, new_metadata)]]

\* Lines 335-337: the containers are added one after the other.
RECURSIVE AddContainers(_, _)
AddContainers(ms, new_containers) ==
    IF new_containers = <<>> THEN ms
    ELSE AddContainers(addContainer(ms, Head(new_containers).container.id,
                                    Head(new_containers).container),
                       Tail(new_containers))

\* Line 94.
MaterialGroupOf(map, root_material_id) ==
    IF root_material_id \in DOMAIN map THEN map[root_material_id] ELSE NoneValue

\* MaterialManagementModel.addFavorite, called at line 341: the id is put
\* at the end of the preference when it is not in it.
FavoriteAppended(preference, material_base_file) ==
    IF material_base_file \in SetOf(split(preference, ";")) THEN preference
    ELSE join(";", Append(split(preference, ";"), material_base_file))

\* The state after duplicateMaterialByRootId, whose result the caller
\* returns as result_of[it].  Every container the registry takes is
\* notified as added, which starts the update timer (line 91).
Duplicated(call, root_material_id, new_base_id, new_metadata, not_found) ==
    /\ last_call' = call
    /\ raised' = NoException
    /\ duplicated' = root_material_id
    /\ IF root_material_id \notin DOMAIN materials
       THEN /\ returned' = not_found
            /\ added' = <<>>
            /\ copied' = <<>>
            /\ emitted' = <<>>
            /\ unique_name_calls' = 0
            /\ UNCHANGED <<materials, favorites, favorite_materials, TimerFields>>
       ELSE \E base_id \in {NewBaseId(materials, root_material_id, new_base_id)} :
            \E new_containers \in {NewContainers(materials, root_material_id,
                                                  base_id, new_metadata)} :
                /\ materials' = AddContainers(materials, new_containers)
                /\ added' = [k \in DOMAIN new_containers |->
                                new_containers[k].container.id]
                /\ copied' = [k \in DOMAIN new_containers |->
                                 new_containers[k].source]
                /\ unique_name_calls' = IF new_base_id = NoneValue THEN 1 ELSE 0
                /\ favorites' = IF root_material_id \in favorites
                                THEN favorites \cup {base_id} ELSE favorites
                /\ favorite_materials' =
                      IF root_material_id \in favorites
                      THEN FavoriteAppended(favorite_materials, base_id)
                      ELSE favorite_materials
                /\ emitted' = IF root_material_id \in favorites
                              THEN <<"materialsUpdated">> ELSE <<>>
                /\ returned' = base_id
                /\ IF DOMAIN materials' = DOMAIN materials
                   THEN UNCHANGED TimerFields
                   ELSE /\ update_timer' = TimerStart(update_timer)
                        /\ quiet' = 0
                        /\ materials_updated' = 0
                        /\ burst' = IF burst < MaxBurst THEN burst + 1 ELSE burst
    /\ UNCHANGED <<NodeFields, OtherFields, MaterialMaps, active_machine, TreeFields,
                   containers, stacks, group, new_name, reset_stacks,
                   quality_groups, default_group, quality_changes_groups, search_id>>

\* Lines 290-343.
duplicateMaterialByRootId(root_material_id, new_base_id, new_metadata) ==
    Duplicated("duplicateMaterialByRootId", root_material_id, new_base_id,
               new_metadata, NoneValue)

\* A node without container gives the id of a new material.
duplicateMaterial_NoContainerCheck(material_node, new_base_id, new_metadata) ==
    IF material_node.container = {}
    THEN Duplicated("duplicateMaterial", "generic_pla", new_base_id,
                    new_metadata, "ERROR")
    ELSE Duplicated("duplicateMaterial",
                    (CHOOSE c \in material_node.container : TRUE).base_file,
                    new_base_id, new_metadata, "ERROR")

\* Lines 349-357.
duplicateMaterial(material_node, new_base_id, new_metadata) ==
    IF material_node.container = {}
    THEN /\ last_call' = "duplicateMaterial"
         /\ raised' = NoException
         /\ returned' = "ERROR"
         /\ duplicated' = NoneValue
         /\ added' = <<>>
         /\ copied' = <<>>
         /\ emitted' = <<>>
         /\ unique_name_calls' = 0
         /\ UNCHANGED <<NodeFields, OtherFields, materials, favorites, favorite_materials,
                        MaterialMaps,
                        active_machine, TreeFields, TimerFields,
                        containers, stacks, group, new_name, reset_stacks,
                        quality_groups, default_group, quality_changes_groups,
                        search_id>>
    ELSE Duplicated("duplicateMaterial",
                    (CHOOSE c \in material_node.container : TRUE).base_file,
                    new_base_id, new_metadata, "ERROR")

\* Lines 93-94.
getMaterialGroup(root_material_id) ==
    /\ last_call' = "getMaterialGroup"
    /\ raised' = NoException
    /\ returned' = MaterialGroupOf(material_group_map, root_material_id)
    /\ UNCHANGED <<NodeFields, OtherFields, materials, favorites, favorite_materials,
                   MaterialMaps, duplicated, copied, active_machine, TreeFields, TimerFields,
                   Registry,
                   quality_groups, default_group, quality_changes_groups, search_id>>

\* The materials of the registry: two root materials, and any of the
\* derivatives of the first for a machine and for a nozzle of the machine.
\* Lines 107-108: the root material id of a material id with a diameter.
getRootMaterialIDWithoutDiameter(root_material_id) ==
    IF root_material_id \in DOMAIN diameter_material_map
    THEN diameter_material_map[root_material_id]
    ELSE ""

\* Lines 213-222: what the call raises and returns. A value of the fallback
\* map is {} when it is empty and {metadata} otherwise.
FallbackMaterialId_NoSafetyCheck(type) ==
    IF type \notin DOMAIN fallback_materials_map
    THEN [raised |-> "KeyError", value |-> NoneValue]
    ELSE IF fallback_materials_map[type] # {}
    THEN [raised |-> NoException,
          value |-> CHOOSE id \in {getRootMaterialIDWithoutDiameter(m.id) :
                                       m \in fallback_materials_map[type]} : TRUE]
    ELSE [raised |-> NoException, value |-> NoneValue]

FallbackMaterialId(type) ==
    IF type \notin DOMAIN fallback_materials_map
    THEN [raised |-> NoException, value |-> NoneValue]
    ELSE IF fallback_materials_map[type] # {}
    THEN [raised |-> NoException,
          value |-> CHOOSE id \in {getRootMaterialIDWithoutDiameter(m.id) :
                                       m \in fallback_materials_map[type]} : TRUE]
    ELSE [raised |-> NoException, value |-> NoneValue]

getFallbackMaterialIdByMaterialType(type) ==
    /\ last_call' = "getFallbackMaterialIdByMaterialType"
    /\ material_type' = type
    /\ raised' = FallbackMaterialId(type).raised
    /\ returned' = FallbackMaterialId(type).value
    /\ UNCHANGED <<NodeFields, OtherFields, materials, favorites, favorite_materials,
                   material_group_map, fallback_materials_map, diameter_material_map,
                   duplicated, copied, active_machine, TreeFields, TimerFields,
                   Registry,
                   quality_groups, default_group, quality_changes_groups, search_id>>

GenericPla == MaterialMetadata("generic_pla", "generic_pla", "fdmprinter",
                               NoneValue, "guid-pla", "PLA")
GenericAbs == MaterialMetadata("generic_abs", "generic_abs", "fdmprinter",
                               NoneValue, "guid-abs", "ABS")
Derivatives ==
    {MaterialMetadata("generic_pla_ultimaker3", "generic_pla", "ultimaker3",
                      NoneValue, "guid-pla", "PLA"),
     MaterialMetadata("generic_pla_ultimaker3_AA_0.4", "generic_pla", "ultimaker3",
                      "AA 0.4", "guid-pla", "PLA")}
\* The container of a material that the registry has no more.
RemovedPetg == MaterialMetadata("custom_petg", "custom_petg", "fdmprinter",
                                NoneValue, "guid-petg", "PETG")

\* The arguments of the calls.
NewBaseIds == {NoneValue, "custom_pla"}
NewMetadata == {{}, {[brand |-> "Custom", GUID |-> "guid-custom"]}}
\* MaterialNode.container is {} for None.
MaterialNodes(ms) ==
    {[container_id |-> id, container |-> {ms[id]}] : id \in DOMAIN ms}
    \cup {[container_id |-> "custom_petg", container |-> {RemovedPetg}],
          [container_id |-> "generic_cpe", container |-> {}]}

InitMaterials ==
    /\ \E derivatives \in SUBSET Derivatives :
          materials = [id \in {m.id : m \in {GenericPla, GenericAbs} \cup derivatives} |->
                          CHOOSE m \in {GenericPla, GenericAbs} \cup derivatives :
                              m.id = id]
    /\ \E preference \in {"", "generic_pla"} : InitFavorites(preference)
    /\ InitMaterialMaps
    /\ found_material_node = {}
    /\ returned = NoneValue
    /\ duplicated = NoneValue
    /\ copied = <<>>
    /\ InitTimer
    /\ InitNoTree
    /\ InitNoRegistry
    /\ InitResults
    /\ global_qualities = EmptyDict
    /\ variants = EmptyDict
    /\ extruders = EmptyDict
    /\ definition = [id |-> "ultimaker3"]
    /\ machine_quality_type_to_quality_changes_dict = EmptyDict

NextMaterials ==
    \/ \E root_material_id \in RootMaterialIds \cup {"custom_petg"},
          new_base_id \in NewBaseIds, new_metadata \in NewMetadata :
          /\ Cardinality(DOMAIN materials) < MaxMaterials
          /\ duplicateMaterialByRootId(root_material_id, new_base_id, new_metadata)
    \/ \E material_node \in MaterialNodes(materials),
          new_base_id \in NewBaseIds, new_metadata \in NewMetadata :
          /\ Cardinality(DOMAIN materials) < MaxMaterials
          /\ duplicateMaterial(material_node, new_base_id, new_metadata)
    \/ \E root_material_id \in DOMAIN materials : getMaterialGroup(root_material_id)

SpecMaterials == InitMaterials /\ [][NextMaterials]_vars

\* The queries of the fallback material, between changes of the materials and
\* of the favourites.
NextFallback ==
    \/ \E type \in MaterialTypes : getFallbackMaterialIdByMaterialType(type)
    \/ \E root_material_id \in RootMaterialIds, new_metadata \in NewMetadata :
          /\ Cardinality(DOMAIN materials) < MaxMaterials
          /\ duplicateMaterialByRootId(root_material_id, NoneValue, new_metadata)
    \/ \E root_material_id \in DOMAIN materials : getMaterialGroup(root_material_id)
    \/ \E root_material_id \in RootMaterialIds : removeFavorite(root_material_id)

SpecFallback == InitMaterials /\ [][NextFallback]_vars

\* The favourites are marked and unmarked.
NextFavorites ==
    \/ \E root_material_id \in RootMaterialIds \cup {"custom_pla"} :
          addFavorite(root_material_id)
    \/ \E root_material_id \in RootMaterialIds \cup {"custom_pla"} :
          removeFavorite(root_material_id)

SpecFavorites == InitMaterials /\ [][NextFavorites]_vars

\* ------------------------------------------- specification of the renaming
\* renameQualityChangesGroup reads and writes no quality changes of a
\* stack: the registry above with no custom profile in use.
InitRename ==
    /\ InitRegistry
    /\ \A s \in DOMAIN stacks :
          stacks[s].qualityChanges = empty_quality_changes_container

NextRename ==
    \E g \in QualityChangesGroups(containers), name \in NewNames :
        renameQualityChangesGroup(g, name)

SpecRename == InitRename /\ [][NextRename]_vars

\* ======================================================= quality resolution
\* The effective quality source of an extruder, as the specification states
\* it: the quality types of the (variant, material) node when the tree has
\* one, otherwise those of the machine's global qualities.
EffectiveSource(e) ==
    IF extruders[e].variant \in DOMAIN variants
       /\ extruders[e].material \in DOMAIN variants[extruders[e].variant]
    THEN variants[extruders[e].variant][extruders[e].material]
    ELSE global_qualities

EnabledExtruders == {e \in DOMAIN extruders : extruders[e].isEnabled}

\* The intersected set: the global quality types that every enabled extruder
\* has in its effective quality source.
IntersectedTypes ==
    {q \in DOMAIN global_qualities :
        \A e \in EnabledExtruders : q \in DOMAIN EffectiveSource(e)}

AvailableOf(r) == {q \in DOMAIN r.groups : r.groups[q].is_available}

\* C1: getQualityGroups returns, for every quality type q of the machine's
\* global qualities, a group whose is_available is true iff q is in the
\* effective quality source of every enabled extruder.
C1_AvailableIffInEveryEnabledExtruder ==
    last_call = "getQualityGroups" =>
        /\ raised = NoException
        /\ \A q \in DOMAIN global_qualities :
              /\ q \in DOMAIN quality_groups
              /\ quality_groups[q].is_available <=> (q \in IntersectedTypes)

\* C2: with zero enabled extruders getQualityGroups completes and marks
\* every quality type of the global qualities available.
C2_NoEnabledExtruderAllAvailable ==
    (last_call = "getQualityGroups" /\ EnabledExtruders = {}) =>
        /\ raised = NoException
        /\ \A q \in DOMAIN global_qualities :
              /\ q \in DOMAIN quality_groups
              /\ quality_groups[q].is_available

C2_Witness ==
    /\ last_call = "getQualityGroups"
    /\ EnabledExtruders = {}
    /\ Cardinality(DOMAIN extruders) = MaxExtruders
    /\ Cardinality(DOMAIN global_qualities) >= 2
    /\ DOMAIN variants["AA 0.4"]["generic_pla"] = {"fine"}
    /\ \E e \in DOMAIN extruders :
          extruders[e].variant = "AA 0.4" /\ extruders[e].material = "generic_pla"
    /\ AvailableOf([groups |-> quality_groups]) = DOMAIN global_qualities

\* C3: for every extruder e, with the other extruders fixed, getQualityGroups
\* returns for e disabled and for e enabled, and the types it marks available
\* with e disabled include those it marks available with e enabled.
C3_DisablingNeverShrinks ==
    last_call = "getQualityGroups" =>
        \A e \in DOMAIN extruders :
            LET on  == getQualityGroupsResult(global_qualities, variants,
                           [extruders EXCEPT ![e].isEnabled = TRUE])
                off == getQualityGroupsResult(global_qualities, variants,
                           [extruders EXCEPT ![e].isEnabled = FALSE])
            IN  /\ on.raised = NoException
                /\ off.raised = NoException
                /\ AvailableOf(on) \subseteq AvailableOf(off)

\* C4: in the result of getQualityGroups, nodes_for_extruders of every group
\* has, for every enabled extruder, the node of the group's quality type
\* from the extruder's effective quality source, and has no entry for a
\* disabled extruder.
C4_NodesForExtruders ==
    last_call = "getQualityGroups" =>
        /\ raised = NoException
        /\ \A q \in DOMAIN quality_groups : \A e \in DOMAIN extruders :
              LET nodes == quality_groups[q].nodes_for_extruders
              IN  /\ ~extruders[e].isEnabled => e \notin DOMAIN nodes
                  /\ (extruders[e].isEnabled /\ q \in DOMAIN EffectiveSource(e)) =>
                        (e \in DOMAIN nodes /\ nodes[e] = EffectiveSource(e)[q])

\* C5: getQualityGroups returns exactly one group per quality type of the
\* global qualities, each with the machine's global node of that type,
\* whatever the extruders are.
C5_OneGroupPerGlobalType ==
    last_call = "getQualityGroups" =>
        /\ raised = NoException
        /\ DOMAIN quality_groups = DOMAIN global_qualities
        /\ \A q \in DOMAIN quality_groups :
              /\ quality_groups[q].quality_type = q
              /\ quality_groups[q].node_for_global = {global_qualities[q]}

\* C6: getDefaultQualityType returns the group of preferred_quality_type when
\* that type is in the intersected set, and None when it is absent from the
\* groups or not available.
C6_DefaultQualityType ==
    last_call = "getDefaultQualityType" =>
        /\ raised = NoException
        /\ IF definition["preferred_quality_type"] \in IntersectedTypes
           THEN \E g \in default_group :
                   /\ default_group = {g}
                   /\ g.quality_type = definition["preferred_quality_type"]
                   /\ g.is_available
           ELSE default_group = {}

\* =========================================================== search id
TrueLiterals == {"True", "'True'", "'true'", "'Yes'", "'yes'", "1"}

\* C8: the search id is the default id when has_machine_quality is false or
\* missing; otherwise the definition's quality_definition when defined, and
\* the definition's own id when not.
C8_ThreeTierRule ==
    last_call = "getMachineDefinitionIDForQualitySearch" =>
        LET has_machine_quality ==
                /\ "has_machine_quality" \in DOMAIN definition
                /\ definition["has_machine_quality"] \in TrueLiterals
        IN  /\ ~has_machine_quality => search_id \in {"fdmprinter", "fdmextruder"}
            /\ (has_machine_quality /\ "quality_definition" \in DOMAIN definition) =>
                   search_id = definition["quality_definition"]
            /\ (has_machine_quality /\ "quality_definition" \notin DOMAIN definition) =>
                   search_id = definition["id"]

C8_Witness ==
    /\ last_call = "getMachineDefinitionIDForQualitySearch"
    /\ "has_machine_quality" \in DOMAIN definition
    /\ definition["has_machine_quality"] = "'yes'"
    /\ "quality_definition" \in DOMAIN definition
    /\ search_id = "ultimaker3"
    /\ definition["id"] = "ultimaker3_extended"

\* ============================================================== registry
\* C9: after removeQualityChangesGroup(group) no container of the group is
\* in the registry, every machine stack and extruder stack that had one of
\* them as qualityChanges has the empty quality-changes container, and no
\* stack references a removed container.
C9_RemoveResetsStacks ==
    [][\A g \in QualityChangesGroups(containers) :
          removeQualityChangesGroup(g) =>
              /\ \A id \in getAllNodes(g) : id \notin DOMAIN containers'
              /\ \A s \in DOMAIN stacks :
                    /\ stacks[s].qualityChanges \in getAllNodes(g) =>
                          stacks'[s].qualityChanges = empty_quality_changes_container
                    /\ stacks'[s].qualityChanges \notin getAllNodes(g)]_vars

C9_Witness ==
    /\ last_call = "removeQualityChangesGroup"
    /\ group.name = Name("Custom A", 1)
    /\ Cardinality(getAllNodes(group)) = 1 + MaxExtruders
    /\ \E m \in reset_stacks : stacks[m].type = "machine"
    /\ \E e \in reset_stacks : stacks[e].type = "extruder_train"
    /\ \E s \in DOMAIN stacks : stacks[s].qualityChanges \in DOMAIN containers

\* C10: renameQualityChangesGroup(group, name) with name = group.name
\* returns the name, renames no container, does not consult uniqueName,
\* leaves the group's name as it is and emits no signal.
C10_RenameToOwnNameIsNoOp ==
    [][\A g \in QualityChangesGroups(containers) :
          renameQualityChangesGroup(g, g.name) =>
              /\ new_name' = g.name
              /\ containers' = containers
              /\ stacks' = stacks
              /\ unique_name_calls' = 0
              /\ group'.name = g.name
              /\ emitted' = <<>>]_vars

C10_Witness ==
    /\ last_call = "renameQualityChangesGroup"
    /\ new_name = group.name
    /\ new_name = Name("Custom B", 2)
    /\ emitted = <<>>
    /\ unique_name_calls = 0
    /\ \E id \in DOMAIN containers : containers[id].name = new_name
\* C11: renameQualityChangesGroup(group, name) with name different from
\* group.name returns n = uniqueName(name); afterwards the group and every
\* container of the group carry the name n, and the registry holds the same
\* container ids as before, the containers outside the group unchanged and
\* those of the group changed in their name only.
C11_RenameIsPureRename ==
    [][\A g \in QualityChangesGroups(containers), name \in NewNames :
          (/\ name # g.name
           /\ last_call' = "renameQualityChangesGroup"
           /\ getAllNodes(group') = getAllNodes(g)
           /\ renameQualityChangesGroup(g, name)) =>
              /\ new_name' = uniqueName(RegistryIds(containers, stacks),
                                        RegistryNames(containers, stacks), name)
              /\ group'.name = new_name'
              /\ \A id \in getAllNodes(g) : containers'[id].name = new_name'
              /\ DOMAIN containers' = DOMAIN containers
              /\ \A id \in DOMAIN containers :
                    /\ containers'[id].position = containers[id].position
                    /\ id \notin getAllNodes(g) => containers'[id] = containers[id]
              /\ stacks' = stacks]_vars

C11_Witness ==
    /\ last_call = "renameQualityChangesGroup"
    /\ unique_name_calls = 1
    /\ new_name = Name("Custom B", 3)
    /\ group.name = new_name
    /\ Cardinality(getAllNodes(group)) = 1 + MaxExtruders
    /\ \A id \in getAllNodes(group) : containers[id].name = new_name
    /\ \E id \in DOMAIN containers : containers[id].name = "Custom B"
\* The ids '<base id>_<name>' with the name, or all of it, lowercased and
\* its spaces replaced by underscores.
ConventionIds(base_id, name) ==
    {ContainerId(base_id, name), base_id \o "_" \o replace(lower(name), " ", "_")}

\* id is what uniqueName makes of candidate: the candidate itself, or the
\* candidate without its number, with or without a number of its own.
MadeUniqueFrom(id, candidate) ==
    \/ id = candidate
    \/ id = WithoutNumber(candidate)
    \/ WithoutNumber(id) = WithoutNumber(candidate)

\* C12: every container that createQualityChanges or duplicateQualityChanges
\* adds has an id '<machine definition id or extruder stack id>_<name>',
\* the name lowercased and its spaces replaced by underscores, made unique
\* by uniqueName; the ids added are pairwise distinct, and each of them
\* names in the registry the container that was added under it.
C12_CreatedIdsKeepConvention ==
    last_call \in {"createQualityChanges", "duplicateQualityChanges"} =>
        /\ \A k \in 1..Len(added) :
              \E base_id \in {definition["id"]}
                              \cup findContainerStacks(stacks, "extruder_train") :
                  \E candidate \in ConventionIds(base_id, new_name) :
                      MadeUniqueFrom(added[k], candidate)
        /\ \A j, k \in 1..Len(added) : j # k => added[j] # added[k]
        /\ \A k \in 1..Len(added) :
              /\ added[k] \in DOMAIN containers
              /\ containers[added[k]].name = new_name
\* C13: for any active global stack, whatever the order in which its
\* definition and its stack were added relative to the construction of the
\* ContainerTree, getCurrentQualityGroups and QualityManager.getQualityGroups
\* find the MachineNode of the stack's definition and do not fail on a
\* missing node.
C13_MachineNodeOnDemand ==
    last_call \in {"getCurrentQualityGroups", "getQualityGroups"} =>
        raised # "KeyError"

C15_ConnectedExactlyOnce ==
    /\ \A d \in DOMAIN machines : connected[machines[d]] = 1
    /\ last_call = "materialsChanged" => emitted = <<"materialsChanged">>

\* A node of the initial load and a node of a later notification, one of
\* which has emitted.
C15_Witness ==
    /\ last_call = "materialsChanged"
    /\ emitted = <<"materialsChanged">>
    /\ Cardinality(DOMAIN machines) = 2
    /\ \E st \in GlobalStackIds :
          /\ st \in DOMAIN all_containers
          /\ \E d \in DOMAIN machines : d # all_containers[st].definition
\* C16: a burst of notifications of materials that arrive without the
\* update timer expiring in between gives exactly one materialsUpdated of
\* the timer, a whole interval after the last notification of the burst,
\* and every notification of a material is eventually followed by it.
C16_DebounceOneRebuildPerBurst ==
    /\ [](/\ materials_updated <= 1
          /\ update_timer.active = (burst > 0)
          /\ materials_updated = 1 => ~update_timer.active)
    /\ [][timerTimeout => (burst >= 1 /\ quiet = TimerInterval
                            /\ materials_updated' = 1
                            /\ ~update_timer'.active)]_vars
    /\ (burst > 0) ~> (burst = 0 /\ materials_updated = 1)

\* The timer has fired once, a whole interval after the last notification.
C16_Witness ==
    /\ last_call = "materialsUpdated"
    /\ materials_updated = 1
    /\ ~update_timer.active
    /\ quiet = TimerInterval
DuplicateCalls == {"duplicateMaterialByRootId", "duplicateMaterial"}

\* C17: every container that duplicateMaterialByRootId hands to the
\* registry, with or without a new_base_id of the caller, has an id that no
\* container of the registry has and that no other copy of the call has.
C17_CopiesGetFreshIds ==
    [][last_call' \in DuplicateCalls =>
          /\ \A k \in 1..Len(added') : added'[k] \notin DOMAIN materials
          /\ \A j, k \in 1..Len(added') : j # k => added'[j] # added'[k]]_vars

\* C18: after a duplication that succeeded the returned root id differs
\* from the root id duplicated, and getMaterialGroup of it gives a group at
\* once.
C18_DuplicateIsRetrievable ==
    (last_call \in DuplicateCalls /\ returned \notin {NoneValue, "ERROR"}) =>
        /\ returned # duplicated
        /\ MaterialGroupOf(material_group_map, returned) # NoneValue

\* C19: duplicateMaterialByRootId of a root id the registry has not returns
\* None, duplicateMaterial of a node of such a root or of a node without
\* container returns "ERROR"; no container is added and the favourites are
\* left as they are.
C19_MissingSourceFailsCleanly ==
    [][/\ \A root_material_id \in RootMaterialIds \cup {"custom_petg"},
             new_base_id \in NewBaseIds, new_metadata \in NewMetadata :
             (/\ root_material_id \notin DOMAIN materials
              /\ duplicateMaterialByRootId(root_material_id, new_base_id,
                                           new_metadata)) =>
                 /\ returned' = NoneValue
                 /\ materials' = materials
                 /\ favorites' = favorites
                 /\ added' = <<>>
       /\ \A material_node \in MaterialNodes(materials),
             new_base_id \in NewBaseIds, new_metadata \in NewMetadata :
             (/\ \A c \in material_node.container :
                     c.base_file \notin DOMAIN materials
              /\ duplicateMaterial(material_node, new_base_id, new_metadata)) =>
                 /\ returned' = "ERROR"
                 /\ materials' = materials
                 /\ favorites' = favorites
                 /\ added' = <<>>]_vars

\* The material of a node without container was not duplicated, with a
\* favourite and a derivative in the registry.
C19_Witness ==
    /\ last_call = "duplicateMaterial"
    /\ returned = "ERROR"
    /\ duplicated = NoneValue
    /\ added = <<>>
    /\ "generic_pla" \in favorites
    /\ Cardinality(DOMAIN materials) > 2

MaterialState == <<materials, favorites, favorite_materials, material_group_map,
                    fallback_materials_map, diameter_material_map, duplicated, copied,
                    found_material_node, NodeFields, active_machine, TreeFields,
                    TimerFields, Registry>>

\* C21: getFallbackMaterialIdByMaterialType of a material type that is not a
\* key of the fallback map returns None, raises nothing and changes no state.
C21_UnknownTypeGivesNone ==
    [][(/\ last_call' = "getFallbackMaterialIdByMaterialType"
        /\ material_type' \notin DOMAIN fallback_materials_map) =>
           /\ returned' = NoneValue
           /\ raised' = NoException
           /\ UNCHANGED MaterialState]_vars

\* The fallback of PETG, which is no key of the map, was asked for.
C21_Witness ==
    /\ last_call = "getFallbackMaterialIdByMaterialType"
    /\ material_type = "PETG"
    /\ "PETG" \notin DOMAIN fallback_materials_map
    /\ returned = NoneValue

\* The material types of the generic root materials of the registry.
GenericMaterialTypes ==
    {materials[id].material :
        id \in {i \in DOMAIN materials : /\ materials[i].base_file = i
                                          /\ materials[i].brand = "Generic"}}

\* C22: for a material type with a generic material, the call
\* getFallbackMaterialIdByMaterialType returns the root id of a material of
\* the registry whose material type is the one asked for.
C22_FallbackRoundTrip ==
    (/\ last_call = "getFallbackMaterialIdByMaterialType"
     /\ material_type \in GenericMaterialTypes) =>
        /\ returned \in DOMAIN materials
        /\ materials[returned].material = material_type
        /\ materials[returned].base_file = returned

log(log_type, message) ==
    /\ last_call' = "log"
    /\ log_calls' = Append(log_calls, [log_type |-> log_type, message |-> message])
    /\ raised' = SentryLog(log_type, message).raised
    /\ show_once' = SentryLog(log_type, message).show_once
    /\ breadcrumbs' = SentryLog(log_type, message).breadcrumbs
    /\ UNCHANGED <<NodeFields, found_material_node, IntentFields, MaterialFields,
                   active_machine,
                   TreeFields, TimerFields, Registry, quality_groups, default_group,
                   quality_changes_groups, search_id>>

\* The logger is made, with an application that has no machine yet.
InitSentry ==
    /\ InitResults
    /\ InitNoTree
    /\ InitNoRegistry
    /\ InitTimer
    /\ InitNoMaterials
    /\ global_qualities = EmptyDict
    /\ variants = EmptyDict
    /\ extruders = EmptyDict
    /\ definition = [id |-> "ultimaker3"]
    /\ machine_quality_type_to_quality_changes_dict = EmptyDict

NextSentry ==
    \E log_type \in LogTypes, message \in Messages :
        /\ Len(log_calls) < MaxLogs
        /\ log(log_type, message)

SpecSentry == InitSentry /\ [][NextSentry]_vars

\* The plain log types and the types postfixed with "_once".
PlainTypes == {"e", "i", "d", "w", "c"}
OnceTypes == {"e_once", "i_once", "d_once", "w_once", "c_once"}
\* The calls so far of the given types with the given message.
CallsOf(types, message) ==
    {i \in DOMAIN log_calls : /\ log_calls[i].log_type \in types
                              /\ log_calls[i].message = message}
BreadcrumbsOf(message) ==
    {i \in DOMAIN breadcrumbs : breadcrumbs[i].message = message}

\* C30: the calls with a type postfixed with "_once" give one breadcrumb per
\* message, at the first such call and with the level of the first letter
\* of its type; every call with a plain type gives one breadcrumb and marks
\* nothing as shown.
C30_OncePerMessage ==
    [][\A log_type \in PlainTypes \cup OnceTypes, message \in Messages :
          (/\ Len(log_calls') = Len(log_calls) + 1
           /\ log_calls'[Len(log_calls')]
                 = [log_type |-> log_type, message |-> message]) =>
             /\ raised' = NoException
             /\ IF log_type \in PlainTypes
                THEN /\ breadcrumbs'
                          = Append(breadcrumbs,
                                   [level |-> translateLogType(log_type),
                                    message |-> message])
                     /\ show_once' = show_once
                ELSE IF CallsOf(OnceTypes, message) = {}
                THEN /\ breadcrumbs'
                          = Append(breadcrumbs,
                                   [level |-> translateLogType(Char(log_type, 1)),
                                    message |-> message])
                     /\ message \in show_once'
                ELSE /\ breadcrumbs' = breadcrumbs
                     /\ show_once' = show_once]_vars

\* A message was logged twice with "_once" types and once with a plain type:
\* it has two breadcrumbs.
C30_Witness ==
    /\ \E message \in Messages :
          /\ Cardinality(CallsOf(OnceTypes, message)) = 2
          /\ Cardinality(CallsOf(PlainTypes, message)) = 1
          /\ Cardinality(BreadcrumbsOf(message)) = 2
          /\ log_calls[1].log_type \in PlainTypes

\* ------------------------------------------------------- the IntentManager
\* CuraApplication.empty_intent_container
empty_intent_container == "empty_intent"

\* ContainerRegistry.findContainersMetadata(**kwargs) and findContainers: the
\* ids of the containers whose metadata has every key of the filter with
\* the value of the filter.
findContainersMetadata(cs, filter) ==
    {id \in DOMAIN cs :
        \A key \in DOMAIN filter :
            key \in DOMAIN cs[id] /\ cs[id][key] = filter[key]}

\* Lines 44-46.
intentMetadatas(definition_id, nozzle_name, material_id) ==
    findContainersMetadata(intent_containers,
                           [definition |-> definition_id, variant |-> nozzle_name,
                            material_id |-> material_id])

\* The category "default" is not added.
IntentCategoriesOf_NoDefault(definition_id, nozzle_id, material_id) ==
    IF \E id \in intentMetadatas(definition_id, nozzle_id, material_id) :
           "intent_category" \notin DOMAIN intent_containers[id]
    THEN [raised |-> "KeyError", categories |-> {}]
    ELSE [raised |-> NoException,
          categories |->
              {intent_containers[id].intent_category :
                  id \in intentMetadatas(definition_id, nozzle_id, material_id)}]

\* Lines 55-60: the set of the categories. intent["intent_category"] raises
\* KeyError for metadata without that key.
IntentCategoriesOf(definition_id, nozzle_id, material_id) ==
    IF \E id \in intentMetadatas(definition_id, nozzle_id, material_id) :
           "intent_category" \notin DOMAIN intent_containers[id]
    THEN [raised |-> "KeyError", categories |-> {}]
    ELSE [raised |-> NoException,
          categories |->
              {intent_containers[id].intent_category :
                  id \in intentMetadatas(definition_id, nozzle_id, material_id)}
              \cup {"default"}]

\* What the calls of the IntentManager leave alone.
IntentUnchanged ==
    UNCHANGED <<NodeFields, found_material_node, SentryFields, MaterialFields,
                TreeFields, TimerFields, Registry, quality_groups, default_group,
                quality_changes_groups, search_id, intent_containers>>

intentCategories(definition_id, nozzle_id, material_id) ==
    /\ last_call' = "intentCategories"
    /\ intent_args' = <<definition_id, nozzle_id, material_id>>
    /\ raised' = IntentCategoriesOf(definition_id, nozzle_id, material_id).raised
    /\ intents_result' \in
          ListsOf(IntentCategoriesOf(definition_id, nozzle_id, material_id).categories)
    /\ UNCHANGED <<intent, active_machine>>
    /\ IntentUnchanged

\* ExtruderManager.getUsedExtruderStacks: the enabled extruders of the
\* active machine, and none without an active machine.
UsedExtruderStacks(machine) ==
    IF machine = NoneValue THEN {}
    ELSE {e \in DOMAIN extruders : extruders[e].isEnabled}

\* QualityManager.getQualityGroups(global_stack), lines 107-140: the machine
\* node is looked up in the tree, then its quality groups are made.
QualityGroupsOfStack ==
    IF MachineNodeRaises(machines, all_containers[active_machine].definition)
           # NoException
    THEN [raised |-> MachineNodeRaises(machines,
                                        all_containers[active_machine].definition),
          groups |-> EmptyDict]
    ELSE getQualityGroupsResult(global_qualities, variants, extruders)

\* Lines 74-75: the quality types of the groups with a global node.
AvailableQualityTypes(groups) ==
    {groups[q].quality_type : q \in {t \in DOMAIN groups :
                                         groups[t].node_for_global # {}}}

\* Lines 78-88: the ids of the intents of the used extruders with such a
\* quality type, and the (intent_category, quality_type) of each.
FinalIntentIds(available_quality_types) ==
    UNION {{id \in intentMetadatas(definition.id, extruders[e].variant,
                                     extruders[e].material) :
               intent_containers[id].quality_type \in available_quality_types} :
           e \in UsedExtruderStacks(active_machine)}

\* Lines 69-89.
currentAvailableIntents ==
    /\ last_call' = "currentAvailableIntents"
    /\ intent_args' = <<>>
    /\ IF active_machine = NoneValue
       THEN /\ raised' = NoException
            /\ intents_result' = << <<"default", "normal">> >>
       ELSE \E r \in {QualityGroupsOfStack} :
              /\ raised' = r.raised
              /\ IF r.raised # NoException
                 THEN UNCHANGED intents_result
                 ELSE intents_result' \in
                        ListsOf({<<intent_containers[id].intent_category,
                                   intent_containers[id].quality_type>> :
                                    id \in FinalIntentIds(
                                               AvailableQualityTypes(r.groups))})
    /\ UNCHANGED <<intent, active_machine>>
    /\ IntentUnchanged

\* Lines 100-110: the categories of the used extruders.
CurrentCategories ==
    UNION {IntentCategoriesOf(definition.id, extruders[e].variant,
                              extruders[e].material).categories :
           e \in UsedExtruderStacks(active_machine)}

currentAvailableIntentCategories ==
    /\ last_call' = "currentAvailableIntentCategories"
    /\ intent_args' = <<>>
    /\ raised' = IF \E e \in UsedExtruderStacks(active_machine) :
                       IntentCategoriesOf(definition.id, extruders[e].variant,
                                          extruders[e].material).raised
                           # NoException
                 THEN "KeyError" ELSE NoException
    /\ IF active_machine = NoneValue
       THEN intents_result' = <<"default">>
       ELSE intents_result' \in ListsOf(CurrentCategories)
    /\ UNCHANGED <<intent, active_machine>>
    /\ IntentUnchanged

\* Line 128: the containers that selectIntent finds for an extruder.
SelectableIntents(e, intent_category, quality_type) ==
    findContainersMetadata(intent_containers,
                           [definition |-> definition.id,
                            variant |-> extruders[e].variant,
                            material |-> extruders[e].material,
                            quality_type |-> quality_type,
                            intent_category |-> intent_category])

\* An extruder without a match keeps the intent it had.
SelectedIntents_KeepOnNoMatch(intent_category, quality_type) ==
    {f \in [DOMAIN intent -> DOMAIN intent_containers \cup {empty_intent_container}] :
        \A e \in DOMAIN intent :
            IF e \in UsedExtruderStacks(active_machine)
               /\ SelectableIntents(e, intent_category, quality_type) # {}
            THEN f[e] \in SelectableIntents(e, intent_category, quality_type)
            ELSE f[e] = intent[e]}

\* Lines 124-132: the intents of the extruders after the loop: the first
\* container found, in whatever order the registry lists them, or the
\* default intent.
SelectedIntents(intent_category, quality_type) ==
    {f \in [DOMAIN intent -> DOMAIN intent_containers \cup {empty_intent_container}] :
        \A e \in DOMAIN intent :
            IF e \in UsedExtruderStacks(active_machine)
            THEN IF SelectableIntents(e, intent_category, quality_type) # {}
                 THEN f[e] \in SelectableIntents(e, intent_category, quality_type)
                 ELSE f[e] = empty_intent_container
            ELSE f[e] = intent[e]}

\* Lines 119-134. MachineManager.setQualityGroupByQualityType, called last,
\* sets the quality of the stacks and no intent.
selectIntent(intent_category, quality_type) ==
    /\ last_call' = "selectIntent"
    /\ intent_args' = <<intent_category, quality_type>>
    /\ raised' = NoException
    /\ IF active_machine = NoneValue
       THEN UNCHANGED intent
       ELSE intent' \in SelectedIntents(intent_category, quality_type)
    /\ UNCHANGED <<intents_result, active_machine>>
    /\ IntentUnchanged

\* Lines 137-139, for the used extruders of a machine.
selectDefaultIntent(machine) ==
    [e \in DOMAIN intent |->
        IF e \in UsedExtruderStacks(machine) THEN empty_intent_container
        ELSE intent[e]]

\* selectDefaultIntent is not connected to configurationChanged.
IntentManagerConnections_NoSlot ==
    {<<"activeStackChanged", "configurationChanged">>}

\* Lines 23-24: what __init__ connects.
IntentManagerConnections ==
    {<<"activeStackChanged", "configurationChanged">>,
     <<"configurationChanged", "selectDefaultIntent">>}

\* What a signal reaches through the connections.
RECURSIVE Reached(_, _)
Reached(from, seen) ==
    IF from \subseteq seen THEN seen
    ELSE Reached({c[2] : c \in {d \in IntentManagerConnections : d[1] \in from}},
                 seen \cup from)

\* MachineManager.activeStackChanged is emitted, the active machine being
\* the given one by then.
activeStackChanged(stack_id) ==
    /\ stack_id = NoneValue \/ stack_id \in DOMAIN all_containers
    /\ last_call' = "activeStackChanged"
    /\ raised' = NoException
    /\ active_machine' = stack_id
    /\ intent' = IF "selectDefaultIntent" \in Reached({"activeStackChanged"}, {})
                 THEN selectDefaultIntent(stack_id)
                 ELSE intent
    /\ UNCHANGED <<intents_result, intent_args>>
    /\ IntentUnchanged

\* The intent profiles of the registry: the configuration they are for is
\* in their metadata.
IntentProfile(id, variant, material, quality_type, intent_category) ==
    [id |-> id, type |-> "intent", definition |-> "ultimaker3",
     variant |-> variant, material |-> material, material_id |-> material,
     quality_type |-> quality_type, intent_category |-> intent_category]
IntentProfiles ==
    {IntentProfile("um3_aa0.4_pla_normal_engineering", "AA 0.4", "generic_pla",
                   "normal", "engineering"),
     IntentProfile("um3_aa0.4_pla_draft_smooth", "AA 0.4", "generic_pla",
                   "draft", "smooth"),
     IntentProfile("um3_bb0.4_pla_normal_engineering", "BB 0.4", "generic_pla",
                   "normal", "engineering")}
\* A quality profile of the registry, which is no intent.
QualityProfile ==
    [id |-> "um3_aa0.4_pla_normal", type |-> "quality", definition |-> "ultimaker3",
     variant |-> "AA 0.4", material |-> "generic_pla", quality_type |-> "normal"]
IntentCategoryNames == {"engineering", "smooth"}

\* A machine with its node in the tree, up to MaxExtruders extruders with
\* the empty intent, and any of the intent profiles in the registry.
InitIntent ==
    /\ \E profiles \in {{}, {p \in IntentProfiles : p.variant = "AA 0.4"},
                          {p \in IntentProfiles : p.quality_type = "normal"},
                          IntentProfiles} :
          intent_containers =
              [id \in {c.id : c \in profiles \cup {QualityProfile}} |->
                  CHOOSE c \in profiles \cup {QualityProfile} : c.id = id]
    /\ \E n \in 0..MaxExtruders :
          extruders \in [0..(n - 1) ->
              [variant : VariantNames, material : {"generic_pla"},
               isEnabled : BOOLEAN]]
    /\ intent = [e \in DOMAIN extruders |-> empty_intent_container]
    /\ intents_result = <<>>
    /\ intent_args = <<>>
    /\ \E types \in {{}, {"draft", "normal"}} :
          global_qualities = QualityMap(<<>>, types)
    /\ variants = [v \in {"AA 0.4"} |-> [m \in {"generic_pla"} |->
                      QualityMap(<<v, m>>, {"normal"})]]
    /\ definition = [id |-> "ultimaker3"]
    /\ machine_quality_type_to_quality_changes_dict = EmptyDict
    /\ constructed = TRUE
    /\ all_containers =
          [id \in {"ultimaker3", "Ultimaker 3"} |->
              CHOOSE c \in TreeContainers : c.id = id]
    /\ machines = [d \in {"ultimaker3"} |-> 1]
    /\ connected = [n \in {1} |-> 1]
    /\ containers = EmptyDict
    /\ stacks = EmptyDict
    /\ active_machine \in {NoneValue, "Ultimaker 3"}
    /\ InitCalls
    /\ InitSentryLogger
    /\ InitTimer
    /\ InitNoMaterials

\* The queries of the IntentManager: they change no intent.
NextIntentQueries ==
    \/ \E definition_id \in TreeDefinitionIds, nozzle_id \in VariantNames :
          intentCategories(definition_id, nozzle_id, "generic_pla")
    \/ currentAvailableIntents
    \/ currentAvailableIntentCategories

SpecIntentQueries == InitIntent /\ [][NextIntentQueries]_vars

\* The selections of intents and the changes of the active stack.
NextIntent ==
    \/ \E intent_category \in IntentCategoryNames, quality_type \in {"draft", "normal"} :
          selectIntent(intent_category, quality_type)
    \/ \E stack_id \in {NoneValue, "Ultimaker 3"} : activeStackChanged(stack_id)

SpecIntent == InitIntent /\ [][NextIntent]_vars

\* The intent profiles of the registry for a configuration.
MatchingIntentProfiles(definition_id, nozzle_name, material_id) ==
    {id \in DOMAIN intent_containers :
        /\ intent_containers[id].type = "intent"
        /\ intent_containers[id].definition = definition_id
        /\ intent_containers[id].variant = nozzle_name
        /\ intent_containers[id].material = material_id}
\* The intent profiles for the configuration of an extruder of the machine.
IntentProfilesOfExtruder(e) ==
    MatchingIntentProfiles(definition.id, extruders[e].variant, extruders[e].material)

\* C23: with an active machine currentAvailableIntents returns the
\* (intent_category, quality_type) of the intent profiles for the
\* configuration of a used extruder whose quality type is available, and of
\* no other.
C23_AvailableIntents ==
    (last_call = "currentAvailableIntents" /\ active_machine # NoneValue) =>
        /\ raised = NoException
        /\ SetOf(intents_result)
              = {<<intent_containers[id].intent_category,
                   intent_containers[id].quality_type>> :
                    id \in {i \in UNION {IntentProfilesOfExtruder(e) :
                                           e \in UsedExtruderStacks(active_machine)} :
                               intent_containers[i].quality_type \in IntersectedTypes}}

\* C24: after selectIntent with an active machine every used extruder has
\* an intent profile for its configuration with the quality type and the
\* category asked for, or the empty intent when there is none; the call
\* raises nothing.
C24_SelectIntentTotal ==
    (last_call = "selectIntent" /\ active_machine # NoneValue) =>
        /\ raised = NoException
        /\ \A e \in UsedExtruderStacks(active_machine) :
              IF \E id \in IntentProfilesOfExtruder(e) :
                     /\ intent_containers[id].intent_category = intent_args[1]
                     /\ intent_containers[id].quality_type = intent_args[2]
              THEN /\ intent[e] \in IntentProfilesOfExtruder(e)
                   /\ intent_containers[intent[e]].intent_category = intent_args[1]
                   /\ intent_containers[intent[e]].quality_type = intent_args[2]
              ELSE intent[e] = empty_intent_container

\* A used extruder got an intent profile and another used extruder, which
\* has none for its nozzle, the empty intent.
C24_Witness ==
    /\ last_call = "selectIntent"
    /\ active_machine # NoneValue
    /\ \E e1, e2 \in UsedExtruderStacks(active_machine) :
          /\ intent[e1] # empty_intent_container
          /\ intent[e2] = empty_intent_container

C27_CurrentCategories ==
    last_call = "currentAvailableIntentCategories" =>
        /\ raised = NoException
        /\ "default" \in SetOf(intents_result)
        /\ active_machine = NoneValue => intents_result = <<"default">>
        /\ active_machine # NoneValue =>
              SetOf(intents_result)
                = {"default"}
                  \cup {intent_containers[id].intent_category :
                          id \in UNION {IntentProfilesOfExtruder(e) :
                                          e \in UsedExtruderStacks(active_machine)}}

\* C28: when the last event is a change of the active stack, every used
\* extruder has the empty intent.
C28_StackChangeResetsIntents ==
    last_call = "activeStackChanged" =>
        \A e \in UsedExtruderStacks(active_machine) :
            intent[e] = empty_intent_container

\* The active stack changed after the intent "engineering" was selected for
\* an extruder that has such a profile.
C28_Witness ==
    /\ last_call = "activeStackChanged"
    /\ intent_args = <<"engineering", "normal">>
    /\ \E e \in UsedExtruderStacks(active_machine) :
          /\ IntentProfilesOfExtruder(e) # {}
          /\ intent[e] = empty_intent_container

====
